---- MODULE Spec2Model ----
(***************************************************************************)
(* A model of sqlmesh's planning core.                                     *)
(*                                                                         *)
(* Context diff (sqlmesh/core/context_diff.py).  ContextDiff.create        *)
(* reconciles the caller's local snapshots with the snapshots of a target  *)
(* environment held by the state reader.  Snapshot objects live in a heap  *)
(* so that object identity, copies and in-place updates                    *)
(* (previous_versions, set_version) are visible.  One run of create is a   *)
(* Call, one LoopStep per item of the local dict (lines 94-118), one       *)
(* VersionStep per new snapshot (lines 120-137) and a Return.              *)
(*                                                                         *)
(* Plan application (sqlmesh/schedulers/airflow/dag_generator.py).  The    *)
(* generator builds the tasks and the >> edges of a plan application DAG;  *)
(* the scheduler runs a task once all of its upstream tasks succeeded.     *)
(*                                                                         *)
(* Engine adapter (sqlmesh/core/engine_adapter.py).  transaction() is a    *)
(* context manager: entering a scope, the statements of its body and       *)
(* leaving it are steps, and any statement sent to the cursor may raise.   *)
(*                                                                         *)
(* Macros (sqlmesh/core/macros.py, sqlmesh/core/dialect.py).  Expressions  *)
(* are trees of nodes; MacroEvaluator.transform and the macros it sends    *)
(* are operators over them, applied by the steps of one rendering: the     *)
(* model's definitions are evaluated, then the query is transformed.       *)
(*                                                                         *)
(* Rendering (sqlmesh/core/model.py).  Model.render_query and              *)
(* Model.render_audit_queries are one step each: the cached transform of   *)
(* _render_query, then the time filter and simplify.                       *)
(*                                                                         *)
(* Cron (sqlmesh/core/model.py).  cron_next, cron_prev and cron_floor are  *)
(* one step each, over the croniter of the normalized cron.                *)
(*                                                                         *)
(* Loading (sqlmesh/core/model.py).  Model.load of the statements of a     *)
(* model file is one step, validate_definition included.                   *)
(*                                                                         *)
(* Registry and selector (sqlmesh/core/model/registry.py,                  *)
(* sqlmesh/core/selector.py).  add, merge and select_models are one step   *)
(* each.                                                                   *)
(*                                                                         *)
(* Each component has its own variables and its own specification; the     *)
(* variables of the other components keep their unused value.              *)
(***************************************************************************)
EXTENDS Integers, Sequences, FiniteSets, TLC

VARIABLES
    state_env,                \* StateReader: the stored environment, or None
    state_snapshots,          \* StateReader: snapshot id -> stored Snapshot
    heap,                     \* reference -> Snapshot object
    snapshots,                \* create's argument: the dict's items, in order
    pc,                       \* "idle", "running" or "done"
    calls,                    \* how many times create has been called
    environment,              \* create's local `environment` (the name)
    env,                      \* create's local `env`
    existing_info,
    added,
    removed,
    modified_info,
    stored,
    merged_snapshots,
    modified_snapshots,
    new_snapshots,
    snapshot_remote_versions,
    i,                        \* position of the loop of lines 94-118
    j,                        \* position of the loop of lines 120-137
    result,                   \* the ContextDiff returned by the last call
    first_result,             \* the ContextDiff returned by the call before
    snapshots_before          \* the caller's snapshot objects before any call

VARIABLES
    request,                  \* the PlanApplicationRequest, or None
    dag,                      \* the generated DAG: tasks, edges, targets
    task_state,               \* task -> "none", "running", "success", "failed"
    xcom_env,                 \* state sync: the environment record, or None
    xcom_snapshots,           \* state sync: the snapshots pushed so far
    tables,                   \* engine: snapshots whose table exists
    intervals,                \* engine: <<snapshot, interval>> pairs populated
    views                     \* engine: view of the environment -> plan id

VARIABLES
    in_transaction,           \* EngineAdapter._transaction
    cursor_log,               \* the statements sent to cursor.execute, in order
    scopes,                   \* the open `with self.transaction()` scopes
    exc,                      \* the exception being propagated, or None
    finished                  \* the transaction() scope that ended last, or None

VARIABLES
    source,                   \* the expression given to MacroEvaluator.transform
    macro_definitions,        \* the model's @DEF statements still to evaluate
    evaluator_locals,         \* MacroEvaluator.locals
    transformed,              \* what transform returned: a list of expressions
    macro_pc                  \* "definitions", "done"

VARIABLES
    model,                    \* the Model that is rendered, or None
    query_cache,              \* Model._query_cache: key -> transformed query
    renders,                  \* how many render calls were made
    last_call,                \* the arguments of the last render call, or None
    render_result             \* the queries the last render call returned

VARIABLES
    cron,                     \* ModelMeta.cron, or None
    clock,                    \* the time at which interval_unit samples the cron
    croniter_cache,           \* ModelMeta._croniter: its expression, or None
    cron_calls,               \* how many cron_next, cron_prev, cron_floor calls
    cron_call,                \* the last of these calls: [op, value], or None
    cron_result               \* what the last of these calls returned

VARIABLES
    model_file,               \* Model.load's argument: the statements of a model file
    load_result               \* what the load returned: a Model, an Error, or None

VARIABLES
    registry,                 \* a ModelRegistry: [name_to_model, fqn_to_model], or None
    other_registry,           \* the ModelRegistry given to merge
    registry_calls,           \* how many calls were made on the two registries
    registry_call,            \* the last call on registry: [op, model], or None
    registry_raised,          \* whether the last call on registry raised ValueError
    registry_before,          \* registry before the last call on it
    registered                \* the models whose add to registry returned

VARIABLES
    local_registry,           \* Selector._model_registry, or None
    environments,             \* StateReader: environment name -> its models
    select_call,              \* select_models' arguments, or None
    select_result             \* what select_models returned, or None

locals == <<environment, env, existing_info, added, removed, modified_info,
            stored, merged_snapshots, modified_snapshots, new_snapshots,
            snapshot_remote_versions, i, j>>

diffVars == <<state_env, state_snapshots, heap, snapshots, pc, calls, locals,
              result, first_result, snapshots_before>>

dagVars == <<request, dag, task_state, xcom_env, xcom_snapshots, tables,
             intervals, views>>

txnVars == <<in_transaction, cursor_log, scopes, exc, finished>>

macroVars == <<source, macro_definitions, evaluator_locals, transformed, macro_pc>>

renderVars == <<model, query_cache, renders, last_call, render_result>>

cronVars == <<cron, clock, croniter_cache, cron_calls, cron_call, cron_result>>

loadVars == <<model_file, load_result>>

registryVars == <<registry, other_registry, registry_calls, registry_call, registry_raised, registry_before, registered>>

selectorVars == <<local_registry, environments, select_call, select_result>>

vars == <<diffVars, dagVars, txnVars, macroVars, renderVars,
          cronVars,
          loadVars,
          registryVars,
          selectorVars>>

\* what an action of one component leaves alone
notDiff == <<dagVars, txnVars, macroVars, renderVars,
             cronVars,
             loadVars,
             registryVars,
             selectorVars>>

notDag == <<diffVars, txnVars, macroVars, renderVars,
            cronVars,
            loadVars,
            registryVars,
            selectorVars>>

notTxn == <<diffVars, dagVars, macroVars, renderVars,
            cronVars,
            loadVars,
            registryVars,
            selectorVars>>

notMacro == <<diffVars, dagVars, txnVars, renderVars,
              cronVars,
              loadVars,
              registryVars,
              selectorVars>>

notRender == <<diffVars, dagVars, txnVars, macroVars,
               cronVars,
               loadVars,
               registryVars,
               selectorVars>>

notCron == <<diffVars, dagVars, txnVars, macroVars, renderVars,
             loadVars,
             registryVars,
             selectorVars>>

notLoad == <<diffVars, dagVars, txnVars, macroVars, renderVars, cronVars,
             registryVars,
             selectorVars>>

notRegistry == <<diffVars, dagVars, txnVars, macroVars, renderVars, cronVars, loadVars,
                 selectorVars>>

notSelector == <<diffVars, dagVars, txnVars, macroVars, renderVars, cronVars, loadVars, registryVars>>

---------------------------------------------------------------------------
(* Bounds and domains *)

MaxVersion == 3     \* versions already present in state are 1..MaxVersion
MaxHist == 2        \* longest version history held by a stored snapshot
MaxCalls == 2       \* create is called at most this often on the same input

Names == {"A", "B"}
NameOrder == <<"A", "B", "C">>
Hashes == {1, 2}
Versions == 1..MaxVersion
EnvName == "prod"

PlanId == [id |-> "plan_1"]

None == [none |-> TRUE]

Range(f) == {f[x] : x \in DOMAIN f}

Last(s) == s[Len(s)]

SeqsUpTo(S, n) == UNION {[1..k -> S] : k \in 0..n}

\* the plan application variables while no plan is being applied
DagUnused ==
    /\ request = None
    /\ dag = None
    /\ task_state = <<>>
    /\ xcom_env = None
    /\ xcom_snapshots = {}
    /\ tables = {}
    /\ intervals = {}
    /\ views = <<>>

\* the adapter as __init__ leaves it (line 53)
TxnUnused ==
    /\ in_transaction = FALSE
    /\ cursor_log = <<>>
    /\ scopes = <<>>
    /\ exc = None
    /\ finished = None

\* no evaluator
MacroUnused ==
    /\ source = None
    /\ macro_definitions = <<>>
    /\ evaluator_locals = <<>>
    /\ transformed = <<>>
    /\ macro_pc = "unused"

RenderUnused ==
    /\ model = None
    /\ query_cache = <<>>
    /\ renders = 0
    /\ last_call = None
    /\ render_result = <<>>


\* no ModelMeta whose cron is asked
CronUnused ==
    /\ cron = None
    /\ clock = 0
    /\ croniter_cache = None
    /\ cron_calls = 0
    /\ cron_call = None
    /\ cron_result = 0


\* no model file is loaded
LoadUnused ==
    /\ model_file = <<>>
    /\ load_result = None


\* no registry
RegistryUnused ==
    /\ registry = None
    /\ other_registry = None
    /\ registry_calls = 0
    /\ registry_call = None
    /\ registry_raised = FALSE
    /\ registry_before = None
    /\ registered = {}


\* no selector
SelectorUnused ==
    /\ local_registry = None
    /\ environments = <<>>
    /\ select_call = None
    /\ select_result = None

---------------------------------------------------------------------------
(* Snapshot, SnapshotTableInfo, SnapshotDataVersion (sqlmesh.core.snapshot) *)

Fingerprint(d, p) ==
    [data_hash |-> d, metadata_hash |-> 1, parent_data_hash |-> p]

Fingerprints == {Fingerprint(d, p) : d \in Hashes, p \in Hashes}

\* version of a freshly built snapshot: the data portion of its fingerprint
ToVersion(fp) == fp.data_hash

\* what set_version() without an argument assigns: a version that no
\* snapshot in state holds, derived from the snapshot itself
FreshVersion(s) ==
    MaxVersion + 2 * (s.fingerprint.data_hash - 1) + s.fingerprint.parent_data_hash

SnapshotId(s) == [name |-> s.name, fingerprint |-> s.fingerprint]

NewSnapshot(n, fp, parents) ==
    [name |-> n,
     fingerprint |-> fp,
     version |-> ToVersion(fp),
     previous_versions |-> <<>>,
     indirect_versions |-> <<>>,
     created_ts |-> 1,
     parents |-> parents]

data_version(s) == [fingerprint |-> s.fingerprint, version |-> s.version]

all_versions(s) == Append(s.previous_versions, data_version(s))

previous_version(s) ==
    IF s.previous_versions = <<>> THEN None ELSE Last(s.previous_versions)

data_hash_matches(s, other) ==
    /\ other # None
    /\ s.fingerprint.data_hash = other.fingerprint.data_hash

\* set_version(version) with a version given
set_version(s, version) == [s EXCEPT !.version = version]

\* set_version() with no version given
set_fresh_version(s) == set_version(s, FreshVersion(s))

table_info(s) ==
    [name |-> s.name,
     fingerprint |-> s.fingerprint,
     version |-> s.version,
     previous_versions |-> s.previous_versions]

---------------------------------------------------------------------------
(* References to snapshot objects *)

LocalRef(n, fp) == [kind |-> "local", call |-> 0, name |-> n, fp |-> fp]

StoredRef(c, id) ==
    [kind |-> "stored", call |-> c, name |-> id.name, fp |-> id.fingerprint]

CopyRef(c, s) ==
    [kind |-> "copy", call |-> c, name |-> s.name, fp |-> s.fingerprint]

---------------------------------------------------------------------------
(* StateReader *)

\* get_snapshots(ids): the stored snapshots among ids, as fresh objects
get_snapshots(c, ids) ==
    [id \in ids \cap DOMAIN state_snapshots |-> StoredRef(c, id)]

---------------------------------------------------------------------------
(* ContextDiff.create, lines 64-92 *)

\* {info.name: info for info in (env.snapshots if env else [])}
ExistingInfo(e) ==
    LET infos == IF e # None THEN e.snapshots ELSE <<>>
        last(n) == CHOOSE k \in DOMAIN infos :
                      /\ infos[k].name = n
                      /\ \A m \in DOMAIN infos : infos[m].name = n => m <= k
    IN  [n \in {infos[k].name : k \in DOMAIN infos} |-> infos[last(n)]]

CurrentModels(snaps) == {snaps[k][1] : k \in DOMAIN snaps}

\* mutant: the environment's names, without the difference
Removed_NoDifference(existing_models, current_models) == existing_models

Removed(existing_models, current_models) == existing_models \ current_models

Added(existing_models, current_models) == current_models \ existing_models

\* mutant: only the data hash is compared
FingerprintChanged_DataOnly(snapshot, info) ==
    snapshot.fingerprint.data_hash # info.fingerprint.data_hash

\* the snapshot fingerprints that count as a change of the model (line 79)
FingerprintChanged(snapshot, info) == snapshot.fingerprint # info.fingerprint

ModifiedInfo(snaps, add, info) ==
    LET changed == {k \in DOMAIN snaps :
                      /\ snaps[k][1] \notin add
                      /\ FingerprintChanged(heap[snaps[k][2]], info[snaps[k][1]])}
    IN  [n \in {snaps[k][1] : k \in changed} |-> info[n]]

\* the ids handed to state_reader.get_snapshots (lines 82-85)
RequestedIds(snaps, mod) ==
    {SnapshotId(mod[n]) : n \in DOMAIN mod}
        \cup {SnapshotId(heap[snaps[k][2]]) : k \in DOMAIN snaps}

Call ==
    /\ pc \in {"idle", "done"}
    /\ calls < MaxCalls
    /\ \E by_name \in BOOLEAN :
           \* an Environment object can only be passed when one exists
           /\ by_name \/ state_env # None
           /\ env' = state_env
           /\ environment' = IF by_name THEN EnvName ELSE state_env.name
    /\ LET info == ExistingInfo(state_env)
           existing_models == DOMAIN info
           current_models == CurrentModels(snapshots)
           add == Added(existing_models, current_models)
           mod == ModifiedInfo(snapshots, add, info)
           got == get_snapshots(calls + 1, RequestedIds(snapshots, mod))
       IN  /\ existing_info' = info
           /\ removed' = Removed(existing_models, current_models)
           /\ added' = add
           /\ modified_info' = mod
           /\ stored' = got
           /\ heap' = [r \in Range(got) |->
                          state_snapshots[[name |-> r.name, fingerprint |-> r.fp]]]
                      @@ heap
    /\ merged_snapshots' = <<>>
    /\ modified_snapshots' = <<>>
    /\ new_snapshots' = <<>>
    /\ snapshot_remote_versions' = <<>>
    /\ i' = 1
    /\ j' = 1
    /\ calls' = calls + 1
    /\ pc' = "running"
    /\ UNCHANGED <<state_env, state_snapshots, snapshots, result, first_result,
                   snapshots_before>>
    /\ UNCHANGED notDiff

---------------------------------------------------------------------------
(* ContextDiff.create, the loop of lines 94-118 *)

\* mutant: the stored object itself is put into the merged snapshots
CopyOfExisting_Alias(c, existing) == existing

\* existing.copy() (line 99): a new object
CopyOfExisting(c, existing) == CopyRef(c, heap[existing])

\* mutant: the caller's object is used without a copy
CopyOfSnapshot_Alias(c, snapshot) == snapshot

\* snapshot = snapshot.copy() (line 113): a new object
CopyOfSnapshot(c, snapshot) == CopyRef(c, heap[snapshot])

\* mutant: the new snapshot is put first
AppendNew_Front(new, snapshot) == <<snapshot>> \o new

\* new_snapshots.append(snapshot) (line 115)
AppendNew(new, snapshot) == Append(new, snapshot)

\* mutant: the history seen last is recorded, whatever its created_ts
RecordRemoteVersions_LastSeen(remote, existing) ==
    LET iv == existing.indirect_versions
    IN  [child \in DOMAIN remote \cup DOMAIN iv |->
            IF child \in DOMAIN iv
            THEN <<iv[child], existing.created_ts>>
            ELSE remote[child]]

\* lines 102-111: the remote versions recorded after an existing, modified
\* snapshot has been seen
RecordRemoteVersions(remote, existing) ==
    LET iv == existing.indirect_versions
    IN  [child \in DOMAIN remote \cup DOMAIN iv |->
            IF /\ child \in DOMAIN iv
               /\ \/ child \notin DOMAIN remote
                  \/ remote[child][2] < existing.created_ts
            THEN <<iv[child], existing.created_ts>>
            ELSE remote[child]]

LoopStep ==
    /\ pc = "running"
    /\ i <= Len(snapshots)
    /\ LET name == snapshots[i][1]
           snapshot == snapshots[i][2]
           modified == IF name \in DOMAIN modified_info
                       THEN modified_info[name] ELSE None
           id == SnapshotId(heap[snapshot])
           existing == IF id \in DOMAIN stored THEN stored[id] ELSE None
       IN  IF existing # None
           THEN LET copy == CopyOfExisting(calls, existing)
                IN  /\ heap' = (copy :> heap[existing]) @@ heap
                    /\ merged_snapshots' = (name :> copy) @@ merged_snapshots
                    /\ IF modified # None
                       THEN /\ modified_snapshots' =
                                 (name :> <<existing, stored[SnapshotId(modified)]>>)
                                     @@ modified_snapshots
                            /\ snapshot_remote_versions' =
                                 RecordRemoteVersions(snapshot_remote_versions,
                                                      heap[existing])
                       ELSE UNCHANGED <<modified_snapshots, snapshot_remote_versions>>
                    /\ UNCHANGED new_snapshots
           ELSE LET copy == CopyOfSnapshot(calls, snapshot)
                    obj == IF modified # None
                           THEN [heap[snapshot] EXCEPT
                                    !.previous_versions = all_versions(modified)]
                           ELSE heap[snapshot]
                IN  /\ heap' = (copy :> obj) @@ heap
                    /\ merged_snapshots' = (name :> copy) @@ merged_snapshots
                    /\ new_snapshots' = AppendNew(new_snapshots, copy)
                    /\ IF modified # None
                       THEN modified_snapshots' =
                                (name :> <<copy, stored[SnapshotId(modified)]>>)
                                    @@ modified_snapshots
                       ELSE UNCHANGED modified_snapshots
                    /\ UNCHANGED snapshot_remote_versions
    /\ i' = i + 1
    /\ UNCHANGED <<state_env, state_snapshots, snapshots, pc, calls, environment,
                   env, existing_info, added, removed, modified_info, stored, j,
                   result, first_result, snapshots_before>>
    /\ UNCHANGED notDiff

---------------------------------------------------------------------------
(* ContextDiff.create, the loop of lines 120-137 *)

\* mutant: the data hash is not compared with the previous version's
ReusesVersion_NoDataCheck(remote, s) ==
    /\ s.name \in DOMAIN remote
    /\ previous_version(s) # None

\* lines 121-125
ReusesVersion(remote, s) ==
    /\ s.name \in DOMAIN remote
    /\ previous_version(s) # None
    /\ data_hash_matches(s, previous_version(s))

\* mutant: the two membership tests are made in the other order
DecideVersion_RemoteFirst(s, remote_versions) ==
    LET remote_head == Last(remote_versions).version
        local_head == previous_version(s).version
    IN  IF local_head \in
              {remote_versions[k].version : k \in DOMAIN remote_versions}
        THEN set_version(s, remote_head)
        ELSE IF remote_head \in
                   {s.previous_versions[k].version : k \in DOMAIN s.previous_versions}
             THEN set_version(s, local_head)
             ELSE set_fresh_version(s)

\* mutant: the second branch adopts the local head too
DecideVersion_KeepsLocal(s, remote_versions) ==
    LET remote_head == Last(remote_versions).version
        local_head == previous_version(s).version
    IN  IF remote_head \in
              {s.previous_versions[k].version : k \in DOMAIN s.previous_versions}
        THEN set_version(s, local_head)
        ELSE IF local_head \in
                   {remote_versions[k].version : k \in DOMAIN remote_versions}
             THEN set_version(s, local_head)
             ELSE set_fresh_version(s)

\* mutant: diverged histories leave the version as it was built
DecideVersion_NoFresh(s, remote_versions) ==
    LET remote_head == Last(remote_versions).version
        local_head == previous_version(s).version
    IN  IF remote_head \in
              {s.previous_versions[k].version : k \in DOMAIN s.previous_versions}
        THEN set_version(s, local_head)
        ELSE IF local_head \in
                   {remote_versions[k].version : k \in DOMAIN remote_versions}
             THEN set_version(s, remote_head)
             ELSE s

\* lines 126-137: the snapshot after its version has been decided
DecideVersion(s, remote_versions) ==
    LET remote_head == Last(remote_versions).version
        local_head == previous_version(s).version
    IN  IF remote_head \in
              {s.previous_versions[k].version : k \in DOMAIN s.previous_versions}
        THEN set_version(s, local_head)
        ELSE IF local_head \in
                   {remote_versions[k].version : k \in DOMAIN remote_versions}
             THEN set_version(s, remote_head)
             ELSE set_fresh_version(s)

VersionStep ==
    /\ pc = "running"
    /\ i > Len(snapshots)
    /\ j <= Len(new_snapshots)
    /\ LET snapshot == new_snapshots[j]
       IN  IF ReusesVersion(snapshot_remote_versions, heap[snapshot])
           THEN heap' = [heap EXCEPT ![snapshot] =
                            DecideVersion(heap[snapshot],
                                snapshot_remote_versions[heap[snapshot].name][1])]
           ELSE UNCHANGED heap
    /\ j' = j + 1
    /\ UNCHANGED <<state_env, state_snapshots, snapshots, pc, calls, environment,
                   env, existing_info, added, removed, modified_info, stored,
                   merged_snapshots, modified_snapshots, new_snapshots,
                   snapshot_remote_versions, i, result, first_result,
                   snapshots_before>>
    /\ UNCHANGED notDiff

---------------------------------------------------------------------------
(* ContextDiff.create, lines 139-147 *)

\* mutant: a plan id is reported whether or not the environment exists
PreviousPlanId_Always(e) == PlanId

PreviousPlanId(e) == IF e # None THEN e.plan_id ELSE None

Return ==
    /\ pc = "running"
    /\ i > Len(snapshots)
    /\ j > Len(new_snapshots)
    /\ result' = [environment |-> environment,
                  added |-> added,
                  removed |-> removed,
                  modified_snapshots |-> modified_snapshots,
                  snapshots |-> merged_snapshots,
                  new_snapshots |-> new_snapshots,
                  previous_plan_id |-> PreviousPlanId(env)]
    /\ first_result' = result
    /\ pc' = "done"
    /\ UNCHANGED <<state_env, state_snapshots, heap, snapshots, calls, locals,
                   snapshots_before>>
    /\ UNCHANGED notDiff

\* ContextDiff.directly_modified (lines 153-167)
directly_modified(diff, model_name) ==
    /\ model_name \in DOMAIN diff.modified_snapshots
    /\ LET current == heap[diff.modified_snapshots[model_name][1]]
           previous == heap[diff.modified_snapshots[model_name][2]]
       IN  ~data_hash_matches(current, previous)

---------------------------------------------------------------------------
(* Initial states: a state store, and the local snapshots built from the     *)
(* project.  The store is consistent: every snapshot of the environment is  *)
(* stored, under its own id, and the environment holds its table info.      *)

\* the permutations of a set of names: the orders a dict can iterate in
Orders(S) ==
    {s \in [1..Cardinality(S) -> S] : \A a, b \in DOMAIN s : s[a] = s[b] => a = b}

\* an older entry of a version history: the data version of the snapshot that
\* was built with version v, or (v not a data hash) of one whose version was
\* reassigned; create reads only the version of such an entry
HistEntry(v) ==
    [fingerprint |-> Fingerprint(IF v \in Hashes THEN v ELSE 1, 1), version |-> v]

\* the versions a stored snapshot can hold: the one it was built with, or a
\* reassigned one
StoredVersions(fp) == {ToVersion(fp)} \cup (Versions \ Hashes)

Histories(n) == {[k \in DOMAIN h |-> HistEntry(h[k])] : h \in SeqsUpTo(Versions, n)}

Environment(remote) ==
    LET names == SelectSeq(NameOrder, LAMBDA n : n \in DOMAIN remote)
    IN  [name |-> EnvName,
         snapshots |-> [k \in DOMAIN names |-> table_info(remote[names[k]])],
         plan_id |-> PlanId]

\* local: name -> locally built Snapshot; order: the dict's iteration order;
\* remote: None (no such environment) or name -> Snapshot of the environment;
\* persisted: the local names whose snapshot is already stored, with the
\* stored form of each
InitWith(local, order, remote, persisted) ==
    /\ heap = [r \in {LocalRef(n, local[n].fingerprint) : n \in DOMAIN local}
                  |-> local[r.name]]
    /\ snapshots = [k \in DOMAIN order |->
                       <<order[k], LocalRef(order[k], local[order[k]].fingerprint)>>]
    /\ snapshots_before = local
    /\ state_env = IF remote = None THEN None ELSE Environment(remote)
    /\ state_snapshots =
          LET kept == IF remote = None THEN {} ELSE Range(remote)
              all == kept \cup Range(persisted)
          IN  [id \in {SnapshotId(s) : s \in all} |->
                  CHOOSE s \in all : SnapshotId(s) = id]
    /\ pc = "idle"
    /\ calls = 0
    /\ environment = EnvName
    /\ env = None
    /\ existing_info = <<>>
    /\ added = {}
    /\ removed = {}
    /\ modified_info = <<>>
    /\ stored = <<>>
    /\ merged_snapshots = <<>>
    /\ modified_snapshots = <<>>
    /\ new_snapshots = <<>>
    /\ snapshot_remote_versions = <<>>
    /\ i = 1
    /\ j = 1
    /\ result = None
    /\ first_result = None

\* the parents of a local snapshot: the project's DAG is A -> B or has no edge
ParentsOf(n, lfp, edge) ==
    IF edge /\ n = "B" /\ "A" \in DOMAIN lfp
    THEN {[name |-> "A", fingerprint |-> lfp["A"]]}
    ELSE {}

\* any local project over Names against any environment over Names, every
\* stored snapshot as it was built
InitClassify ==
    \E present \in SUBSET Names, edge \in BOOLEAN, has_env \in BOOLEAN :
    \E lfp \in [present -> Fingerprints], order \in Orders(present) :
    \E in_env \in SUBSET Names :
    \E rfp \in [in_env -> Fingerprints] :
    \E persisted \in SUBSET {n \in present : n \notin in_env \/ rfp[n] # lfp[n]} :
        /\ edge => present = Names
        /\ ~has_env => in_env = {}
        /\ LET local == [n \in present |->
                            NewSnapshot(n, lfp[n], ParentsOf(n, lfp, edge))]
           IN  InitWith(local, order,
                        IF has_env
                        THEN [n \in in_env |-> NewSnapshot(n, rfp[n], {})]
                        ELSE None,
                        [n \in persisted |-> local[n]])

\* A -> B where A's local snapshot is already stored and carries a remote
\* history of B, and the environment's B has a version of its own and at most
\* one older entry in its history
InitIndirect ==
    \E order \in Orders(Names), a_in_env \in BOOLEAN, b_persisted \in BOOLEAN :
    \E remote_history \in Histories(MaxHist) \ {<<>>} :
    \E b_version \in StoredVersions(Fingerprint(1, 1)), b_previous \in Histories(1) :
    \E b_fp \in {Fingerprint(1, 2), Fingerprint(2, 2)} :
        LET lfp == [n \in Names |-> IF n = "A" THEN Fingerprint(2, 1) ELSE b_fp]
            local == [n \in Names |-> NewSnapshot(n, lfp[n], ParentsOf(n, lfp, TRUE))]
            a_stored == [local["A"] EXCEPT
                            !.indirect_versions = ("B" :> remote_history)]
            b_remote == [NewSnapshot("B", Fingerprint(1, 1), {}) EXCEPT
                            !.version = b_version,
                            !.previous_versions = b_previous]
            a_remote == NewSnapshot("A", Fingerprint(1, 1), {})
        IN  InitWith(local, order,
                     IF a_in_env
                     THEN [n \in Names |-> IF n = "A" THEN a_remote ELSE b_remote]
                     ELSE [n \in {"B"} |-> b_remote],
                     IF b_persisted
                     THEN [n \in Names |-> IF n = "A" THEN a_stored ELSE local[n]]
                     ELSE [n \in {"A"} |-> a_stored])

\* the context diff variables while create is not in use: an empty project
\* and no environment
DiffUnused == InitWith(<<>>, <<>>, None, <<>>)

Init ==
    (InitClassify \/ InitIndirect) /\ DagUnused /\ TxnUnused /\ MacroUnused /\ RenderUnused /\ CronUnused /\ LoadUnused /\ RegistryUnused /\ SelectorUnused

Next == Call \/ LoopStep \/ VersionStep \/ Return

Spec == Init /\ [][Next]_vars

---------------------------------------------------------------------------
(* Properties of ContextDiff.create *)

Done == pc = "done"

LocalNames == DOMAIN snapshots_before

EnvInfo == ExistingInfo(state_env)

EnvNames == DOMAIN EnvInfo

\* the caller's snapshot of a name is already in the state store
IsStored(n) == SnapshotId(snapshots_before[n]) \in DOMAIN state_snapshots

\* C1: in the diff create returns, added, removed and the keys of
\* modified_snapshots are pairwise disjoint, and the merged snapshots have
\* exactly the names of the local snapshot map
C1_DiffSetsDisjoint ==
    Done =>
        /\ result.added \cap result.removed = {}
        /\ result.added \cap DOMAIN result.modified_snapshots = {}
        /\ result.removed \cap DOMAIN result.modified_snapshots = {}
        /\ DOMAIN result.snapshots = LocalNames

C1_Witness ==
    /\ Done
    /\ result.removed # {}
    /\ DOMAIN result.modified_snapshots # {}

\* C2: added is the local names absent from the environment, removed the
\* environment's names absent locally, and a name is modified exactly when it
\* is on both sides with a local fingerprint different from the environment's
C2_ClassifiedByDifference ==
    Done =>
        /\ result.added = LocalNames \ EnvNames
        /\ result.removed = EnvNames \ LocalNames
        /\ DOMAIN result.modified_snapshots =
              {n \in LocalNames \cap EnvNames :
                  snapshots_before[n].fingerprint # EnvInfo[n].fingerprint}

C2_Witness ==
    /\ Done
    /\ \E n \in LocalNames \cap EnvNames :
          /\ snapshots_before[n].fingerprint = EnvInfo[n].fingerprint
          /\ n \notin DOMAIN result.modified_snapshots
    /\ \E n \in LocalNames \cap EnvNames :
          /\ snapshots_before[n].fingerprint.data_hash = EnvInfo[n].fingerprint.data_hash
          /\ n \in DOMAIN result.modified_snapshots

\* the local map holds one snapshot, not stored, and the environment is
\* missing or empty
AddedModelCase ==
    /\ Cardinality(LocalNames) = 1
    /\ EnvNames = {}
    /\ \A n \in LocalNames : ~IsStored(n)

\* C3: a single new local model against an environment without snapshots is
\* added, nothing is removed or modified, it is the one new snapshot, and it
\* keeps the version it was built with, its data hash; without an environment
\* in state there is no previous plan id
C3_AddedModel ==
    Done =>
        /\ AddedModelCase =>
              /\ result.added = LocalNames
              /\ result.removed = {}
              /\ DOMAIN result.modified_snapshots = {}
              /\ Len(result.new_snapshots) = 1
              /\ \A n \in LocalNames :
                    /\ result.new_snapshots[1] = result.snapshots[n]
                    /\ heap[result.snapshots[n]].version =
                          snapshots_before[n].fingerprint.data_hash
        /\ state_env = None => result.previous_plan_id = None

C3_Witness ==
    /\ Done
    /\ AddedModelCase
    /\ state_env = None
    /\ result.added = {"A"}

VersionsOf(history) == {history[k].version : k \in DOMAIN history}

\* the caller's object for a name
LocalRefOf(n) == snapshots[CHOOSE k \in DOMAIN snapshots : snapshots[k][1] = n][2]

\* the stored snapshot the environment records for a name
EnvSnapshot(n) == state_snapshots[SnapshotId(EnvInfo[n])]

\* the local snapshot of n is new and its data hash differs from the one the
\* environment records
DirectCase(n) ==
    /\ n \in LocalNames \cap EnvNames
    /\ snapshots_before[n].fingerprint.data_hash # EnvInfo[n].fingerprint.data_hash
    /\ ~IsStored(n)

\* what C4 states apart from the freshness of the version
DirectlyModifiedResult(n) ==
    /\ n \notin result.added
    /\ n \notin result.removed
    /\ n \in DOMAIN result.modified_snapshots
    /\ result.modified_snapshots[n][1] = result.snapshots[n]
    /\ result.snapshots[n] \in Range(result.new_snapshots)
    /\ heap[result.modified_snapshots[n][2]] = EnvSnapshot(n)
    /\ directly_modified(result, n)
    /\ EnvInfo[n].version \in VersionsOf(heap[result.snapshots[n]].previous_versions)

\* C4 as stated: a directly modified new snapshot A' is paired with the
\* environment's A in modified_snapshots, is directly modified, has v0 among
\* its previous versions, and its version equals no version of A's history
C4_FreshVersion ==
    Done =>
        \A n \in LocalNames :
            DirectCase(n) =>
                /\ DirectlyModifiedResult(n)
                /\ heap[result.snapshots[n]].version
                      \notin VersionsOf(all_versions(EnvSnapshot(n)))

\* C4 as amended: the same, but the version of A' is the one it was built
\* with (its data hash), whether or not A's history holds that version
C4_DirectModification ==
    Done =>
        \A n \in LocalNames :
            DirectCase(n) =>
                /\ DirectlyModifiedResult(n)
                /\ heap[result.snapshots[n]].version =
                      snapshots_before[n].fingerprint.data_hash

C4_Witness ==
    /\ Done
    /\ \E n \in LocalNames :
          /\ DirectCase(n)
          /\ n \in DOMAIN snapshot_remote_versions
          /\ Len(heap[result.snapshots[n]].previous_versions) > 1

---------------------------------------------------------------------------
(* The reuse of versions by indirectly modified snapshots *)

HasRemoteHistory(s) == s.name \in DOMAIN snapshot_remote_versions

MatchesPrevious(s) ==
    /\ s.previous_versions # <<>>
    /\ s.fingerprint.data_hash = Last(s.previous_versions).fingerprint.data_hash

RemoteHistory(s) == snapshot_remote_versions[s.name][1]

RemoteHead(s) == Last(RemoteHistory(s)).version

LocalHead(s) == Last(s.previous_versions).version

\* a new snapshot of the returned diff that is indirectly modified and has a
\* remote history
IndirectCase(r) ==
    /\ r \in Range(result.new_snapshots)
    /\ HasRemoteHistory(heap[r])
    /\ MatchesPrevious(heap[r])

LocalLeads(s) == RemoteHead(s) \in VersionsOf(s.previous_versions)

RemoteLeads(s) ==
    /\ ~LocalLeads(s)
    /\ LocalHead(s) \in VersionsOf(RemoteHistory(s))

\* every version held anywhere in the state store
VersionsInState ==
    UNION {{s.version} \cup VersionsOf(s.previous_versions)
               \cup UNION {VersionsOf(s.indirect_versions[c]) :
                              c \in DOMAIN s.indirect_versions}
           : s \in Range(state_snapshots)}

\* C5: an indirectly modified new snapshot whose previous versions hold the
\* remote head gets the version of its previous version, the local head
C5_LocalLeads ==
    Done =>
        \A r \in DOMAIN heap :
            (IndirectCase(r) /\ LocalLeads(heap[r])) =>
                heap[r].version = LocalHead(heap[r])

C5_Witness ==
    /\ Done
    /\ \E r \in DOMAIN heap :
          /\ IndirectCase(r)
          /\ LocalLeads(heap[r])
          /\ RemoteHead(heap[r]) # LocalHead(heap[r])
          /\ heap[r].version # snapshots_before[heap[r].name].version

\* C6: an indirectly modified new snapshot whose previous versions do not
\* hold the remote head, while the remote history holds the local head, gets
\* the remote head
C6_RemoteLeads ==
    Done =>
        \A r \in DOMAIN heap :
            (IndirectCase(r) /\ RemoteLeads(heap[r])) =>
                heap[r].version = RemoteHead(heap[r])

C6_Witness ==
    /\ Done
    /\ \E r \in DOMAIN heap :
          /\ IndirectCase(r)
          /\ RemoteLeads(heap[r])
          /\ heap[r].version # snapshots_before[heap[r].name].version
          /\ heap[r].version # LocalHead(heap[r])

\* C7: an indirectly modified new snapshot whose history and remote history
\* hold neither the other's head gets a fresh version: one different from
\* both heads and held by nothing in the state store
C7_Diverged ==
    Done =>
        \A r \in DOMAIN heap :
            (IndirectCase(r) /\ ~LocalLeads(heap[r]) /\ ~RemoteLeads(heap[r])) =>
                /\ heap[r].version # LocalHead(heap[r])
                /\ heap[r].version # RemoteHead(heap[r])
                /\ heap[r].version \notin VersionsInState

C7_Witness ==
    /\ Done
    /\ \E r \in DOMAIN heap :
          /\ IndirectCase(r)
          /\ ~LocalLeads(heap[r])
          /\ ~RemoteLeads(heap[r])
          /\ LocalHead(heap[r]) = snapshots_before[heap[r].name].version

---------------------------------------------------------------------------
(* new_snapshots, repeated calls and order *)

Occurrences(seq, x) == Cardinality({k \in DOMAIN seq : seq[k] = x})

\* C8: new_snapshots holds exactly the merged snapshots whose id is not
\* stored: a local snapshot whose id is stored is merged as a copy of the
\* stored snapshot (another object, the same value) and is not new; any other
\* local snapshot is in new_snapshots once, as the object that is merged
C8_NewSnapshotsAreTheUnstored ==
    Done =>
        /\ \A n \in LocalNames :
              IF IsStored(n)
              THEN /\ result.snapshots[n] \notin Range(stored)
                   /\ result.snapshots[n] # LocalRefOf(n)
                   /\ heap[result.snapshots[n]] =
                         state_snapshots[SnapshotId(snapshots_before[n])]
                   /\ Occurrences(result.new_snapshots, result.snapshots[n]) = 0
              ELSE Occurrences(result.new_snapshots, result.snapshots[n]) = 1
        /\ \A k \in DOMAIN result.new_snapshots :
              /\ result.new_snapshots[k] \in Range(result.snapshots)
              /\ SnapshotId(heap[result.new_snapshots[k]])
                    \notin DOMAIN state_snapshots

C8_Witness ==
    /\ Done
    /\ \E n \in LocalNames : IsStored(n) /\ n \in DOMAIN result.modified_snapshots
    /\ \E n \in LocalNames : ~IsStored(n)

\* a diff with every reference replaced by the object it refers to
DiffValue(d) ==
    [environment |-> d.environment,
     added |-> d.added,
     removed |-> d.removed,
     modified_snapshots |->
         [n \in DOMAIN d.modified_snapshots |->
             <<heap[d.modified_snapshots[n][1]], heap[d.modified_snapshots[n][2]]>>],
     snapshots |-> [n \in DOMAIN d.snapshots |-> heap[d.snapshots[n]]],
     new_snapshots |-> [k \in DOMAIN d.new_snapshots |-> heap[d.new_snapshots[k]]],
     previous_plan_id |-> d.previous_plan_id]

CallerSnapshotsUnchanged ==
    \A k \in DOMAIN snapshots : heap[snapshots[k][2]] = snapshots_before[snapshots[k][1]]

\* C9: a second call of create with the same arguments on the same state
\* returns a diff equal to the first, and no call changes the snapshot
\* objects of the caller
C9_Idempotent ==
    /\ (Done /\ calls >= 2) => DiffValue(result) = DiffValue(first_result)
    /\ CallerSnapshotsUnchanged

C9_Witness ==
    /\ Done
    /\ calls = 2
    /\ \E k \in DOMAIN result.new_snapshots :
          LET s == heap[result.new_snapshots[k]]
          IN  /\ s.version # snapshots_before[s.name].version
              /\ s.previous_versions # snapshots_before[s.name].previous_versions

\* the names of a sequence of snapshot references
NamesOf(refs) == [k \in DOMAIN refs |-> heap[refs[k]].name]

\* parents come before their children
Topological(seq) ==
    \A k, m \in DOMAIN seq : SnapshotId(seq[m]) \in seq[k].parents => m < k

\* C10 as stated: new_snapshots lists every new snapshot after its new parents
C10_TopologicalOrder ==
    Done => Topological([k \in DOMAIN result.new_snapshots |->
                            heap[result.new_snapshots[k]]])

\* C10 as amended: new_snapshots lists the new snapshots in the order the local
\* map iterates them in, and so after their new parents when the local map
\* iterates every snapshot after its parents
C10_LocalOrderKept ==
    Done =>
        /\ NamesOf(result.new_snapshots) =
              SelectSeq([k \in DOMAIN snapshots |-> snapshots[k][1]],
                        LAMBDA n : ~IsStored(n))
        /\ Topological([k \in DOMAIN snapshots |-> snapshots_before[snapshots[k][1]]])
              => Topological([k \in DOMAIN result.new_snapshots |->
                                 heap[result.new_snapshots[k]]])

C10_Witness ==
    /\ Done
    /\ Len(result.new_snapshots) = 2
    /\ SnapshotId(heap[result.new_snapshots[1]])
          \in heap[result.new_snapshots[2]].parents

---------------------------------------------------------------------------
(* Plan application DAG (sqlmesh/schedulers/airflow/dag_generator.py) *)

MaxIntervals == 2   \* most missing intervals a snapshot is backfilled for

DagNames == {"a", "b"}      \* the snapshots of the plan; "b" may depend on "a"
StaleName == "c"            \* a view of the environment the plan removes
NameOrderDag == <<"a", "b">>

\* an operator of the DAG: its task id, split into the fixed part, the
\* snapshot it names and the batch or interval number it ends with
Task(id, name, n) == [id |-> id, name |-> name, n |-> n]

Plain(id) == Task(id, "", 0)

\* `[b for b in batches if b]`
NonEmpty(b) == b # {}

NonEmptyBatches(batches) == SelectSeq(batches, NonEmpty)

Flatten(batches) == UNION {batches[k] : k \in DOMAIN batches}

\* a >> b for a task or a list of tasks on either side
Edges(ups, downs) == ups \X downs

\* lines 213-241
CreateCreationTasks(new_snapshot_batches) ==
    LET start_task == Plain("snapshot_creation_start")
        end_task == Plain("snapshot_creation_end")
        batches == NonEmptyBatches(new_snapshot_batches)
        update_state_task == Plain("snapshot_creation__update_state")
        task(k) == Task("snapshot_creation__create_tables_batch", "", k - 1)
    IN  IF batches = <<>>
        THEN [start |-> start_task, end |-> end_task,
              tasks |-> {start_task, end_task},
              edges |-> Edges({start_task}, {end_task}),
              targets |-> <<>>]
        ELSE [start |-> start_task, end |-> end_task,
              tasks |-> {start_task, end_task, update_state_task}
                           \cup {task(k) : k \in DOMAIN batches},
              edges |-> Edges({update_state_task}, {end_task})
                           \cup UNION {Edges({start_task}, {task(k)})
                                          \cup Edges({task(k)}, {update_state_task})
                                       : k \in DOMAIN batches},
              targets |-> [t \in {task(k) : k \in DOMAIN batches}
                              |-> batches[t.n + 1]]
                          @@ (update_state_task :> Flatten(batches))]

\* lines 243-298
CreatePromotionDemotionTasks(promotion_batches, demotion_batches) ==
    LET start_task == Plain("snapshot_promotion_start")
        end_task == Plain("snapshot_promotion_end")
        snaps == Flatten(promotion_batches)
        update_state_task == Plain("snapshot_promotion__update_state")
        promotions == NonEmptyBatches(promotion_batches)
        demotions == NonEmptyBatches(demotion_batches)
        create(k) == Task("snapshot_promotion__create_views_batch", "", k - 1)
        delete(k) == Task("snapshot_promotion__delete_views_batch", "", k - 1)
        create_tasks == {create(k) : k \in DOMAIN promotions}
        delete_tasks == {delete(k) : k \in DOMAIN demotions}
    IN  [start |-> start_task, end |-> end_task,
         tasks |-> {start_task, end_task, update_state_task}
                      \cup create_tasks \cup delete_tasks,
         edges |-> Edges({start_task}, {update_state_task})
                      \cup Edges({update_state_task}, create_tasks)
                      \cup Edges(create_tasks, {end_task})
                      \cup Edges({update_state_task}, delete_tasks)
                      \cup Edges(delete_tasks, {end_task})
                      \cup IF promotions = <<>> /\ demotions = <<>>
                           THEN Edges({update_state_task}, {end_task})
                           ELSE {},
         targets |-> [t \in create_tasks |-> promotions[t.n + 1]]
                     @@ [t \in delete_tasks |-> demotions[t.n + 1]]
                     @@ (update_state_task :> snaps)]

\* mutant: a snapshot's tasks are not held back by its parents' tasks
CreateBackfillTasks_ParentsNotAwaited(backfill_intervals, all_snapshots) ==
    LET with_intervals ==
            {k \in DOMAIN backfill_intervals : backfill_intervals[k].intervals # {}}
        sids == {backfill_intervals[k].snapshot_id : k \in with_intervals}
        intervals_of(sid) ==
            UNION {backfill_intervals[k].intervals :
                      k \in {x \in with_intervals :
                                backfill_intervals[x].snapshot_id = sid}}
        tasks_of(sid) ==
            {Task("snapshot_evaluator", sid, n) : n \in intervals_of(sid)}
        snapshot_start_task(sid) == Task("snapshot_backfill__start", sid, 0)
        snapshot_end_task(sid) == Task("snapshot_backfill__end", sid, 0)
        backfill_start_task == Plain("snapshot_backfill_start")
        backfill_end_task == Plain("snapshot_backfill_end")
        parents_to_backfill(sid) == all_snapshots[sid] \cap sids
        parent_ids_to_backfill == UNION {parents_to_backfill(sid) : sid \in sids}
        entry_tasks ==
            {snapshot_start_task(sid) : sid \in {x \in sids : parents_to_backfill(x) = {}}}
        exit_tasks ==
            {snapshot_end_task(sid) : sid \in sids \ parent_ids_to_backfill}
    IN  IF sids = {}
        THEN [start |-> backfill_start_task, end |-> backfill_end_task,
              tasks |-> {backfill_start_task, backfill_end_task},
              edges |-> Edges({backfill_start_task}, {backfill_end_task}),
              targets |-> <<>>]
        ELSE [start |-> backfill_start_task, end |-> backfill_end_task,
              tasks |-> {backfill_start_task, backfill_end_task}
                           \cup UNION {{snapshot_start_task(sid), snapshot_end_task(sid)}
                                          \cup tasks_of(sid) : sid \in sids},
              edges |-> UNION {Edges({snapshot_start_task(sid)}, tasks_of(sid))
                                  \cup Edges(tasks_of(sid), {snapshot_end_task(sid)})
                                  \cup Edges({backfill_start_task},
                                             {snapshot_start_task(sid)})
                               : sid \in sids}
                           \cup Edges({backfill_start_task}, entry_tasks)
                           \cup Edges(exit_tasks, {backfill_end_task}),
              targets |-> [t \in UNION {tasks_of(sid) : sid \in sids} |-> {t.name}]]

\* lines 300-370; all_snapshots: snapshot id -> the snapshot's parents
CreateBackfillTasks(backfill_intervals, all_snapshots) ==
    LET with_intervals ==
            {k \in DOMAIN backfill_intervals : backfill_intervals[k].intervals # {}}
        sids == {backfill_intervals[k].snapshot_id : k \in with_intervals}
        intervals_of(sid) ==
            UNION {backfill_intervals[k].intervals :
                      k \in {x \in with_intervals :
                                backfill_intervals[x].snapshot_id = sid}}
        tasks_of(sid) ==
            {Task("snapshot_evaluator", sid, n) : n \in intervals_of(sid)}
        snapshot_start_task(sid) == Task("snapshot_backfill__start", sid, 0)
        snapshot_end_task(sid) == Task("snapshot_backfill__end", sid, 0)
        backfill_start_task == Plain("snapshot_backfill_start")
        backfill_end_task == Plain("snapshot_backfill_end")
        parents_to_backfill(sid) == all_snapshots[sid] \cap sids
        parent_ids_to_backfill == UNION {parents_to_backfill(sid) : sid \in sids}
        entry_tasks ==
            {snapshot_start_task(sid) : sid \in {x \in sids : parents_to_backfill(x) = {}}}
        exit_tasks ==
            {snapshot_end_task(sid) : sid \in sids \ parent_ids_to_backfill}
    IN  IF sids = {}
        THEN [start |-> backfill_start_task, end |-> backfill_end_task,
              tasks |-> {backfill_start_task, backfill_end_task},
              edges |-> Edges({backfill_start_task}, {backfill_end_task}),
              targets |-> <<>>]
        ELSE [start |-> backfill_start_task, end |-> backfill_end_task,
              tasks |-> {backfill_start_task, backfill_end_task}
                           \cup UNION {{snapshot_start_task(sid), snapshot_end_task(sid)}
                                          \cup tasks_of(sid) : sid \in sids},
              edges |-> UNION {Edges({snapshot_start_task(sid)}, tasks_of(sid))
                                  \cup Edges(tasks_of(sid), {snapshot_end_task(sid)})
                                  \cup Edges({snapshot_end_task(p) :
                                                 p \in parents_to_backfill(sid)},
                                             {snapshot_start_task(sid)})
                               : sid \in sids}
                           \cup Edges({backfill_start_task}, entry_tasks)
                           \cup Edges(exit_tasks, {backfill_end_task}),
              targets |-> [t \in UNION {tasks_of(sid) : sid \in sids} |-> {t.name}]]

\* mutant: the promotion stage is not held back by the backfill stage
StageOrder_NoBackfillBarrier(start_task, create, backfill, promote) ==
    Edges({start_task}, {create.start})
        \cup Edges({create.end}, {backfill.start})
        \cup Edges({create.end}, {promote.start})

\* lines 162-164: the stages in their order
StageOrder(start_task, create, backfill, promote) ==
    Edges({start_task}, {create.start})
        \cup Edges({create.end}, {backfill.start})
        \cup Edges({backfill.end}, {promote.start})

\* lines 171-211 for a request that names no notification target
AddNotificationTargetTasks(end_task, promote_end_task) ==
    Edges({promote_end_task}, {end_task})

\* lines 111-175
CreatePlanApplicationDag(req) ==
    LET start_task == Plain("plan_application_start")
        end_task == Plain("plan_application_end")
        create == CreateCreationTasks(req.new_snapshot_batches)
        backfill == CreateBackfillTasks(req.backfill_intervals_per_snapshot,
                                        req.all_snapshots)
        promote == CreatePromotionDemotionTasks(req.promotion_batches,
                                                req.demotion_batches)
    IN  [tasks |-> {start_task, end_task} \cup create.tasks \cup backfill.tasks
                      \cup promote.tasks,
         edges |-> create.edges \cup backfill.edges \cup promote.edges
                      \cup StageOrder(start_task, create, backfill, promote)
                      \cup AddNotificationTargetTasks(end_task, promote.end),
         targets |-> create.targets @@ backfill.targets @@ promote.targets]

---------------------------------------------------------------------------
(* A run of the plan application DAG *)

NewPlanId == [id |-> "plan_2"]

\* the tasks that do work; the others are EmptyOperators
EngineTaskIds ==
    {"snapshot_creation__create_tables_batch", "snapshot_creation__update_state",
     "snapshot_evaluator", "snapshot_promotion__update_state",
     "snapshot_promotion__create_views_batch",
     "snapshot_promotion__delete_views_batch"}

Upstream(t) == {e[1] : e \in {x \in dag.edges : x[2] = t}}

\* lines 463-482: the Environment that promotion_update_state_task promotes
PromotedEnvironment(req, snaps) ==
    [name |-> req.environment_name, snapshots |-> snaps,
     plan_id |-> req.plan_id, previous_plan_id |-> req.previous_plan_id]

\* the environment record left by the plan before this one
PreviousEnvironment(req) ==
    IF req.previous_plan_id = None
    THEN None
    ELSE [name |-> req.environment_name,
          snapshots |-> DagNames \cup Flatten(req.demotion_batches),
          plan_id |-> req.previous_plan_id, previous_plan_id |-> None]

\* _create_plan_application_dag is called for the request
GenerateDag ==
    /\ request # None
    /\ dag = None
    /\ dag' = CreatePlanApplicationDag(request)
    /\ task_state' = [t \in dag'.tasks |-> "none"]
    /\ UNCHANGED <<request, xcom_env, xcom_snapshots, tables, intervals, views>>
    /\ UNCHANGED notDag

\* the scheduler starts a task whose upstream tasks have all succeeded
StartTask ==
    /\ dag # None
    /\ \E t \in dag.tasks :
           /\ task_state[t] = "none"
           /\ \A u \in Upstream(t) : task_state[u] = "success"
           /\ task_state' = [task_state EXCEPT ![t] = "running"]
    /\ UNCHANGED <<request, dag, xcom_env, xcom_snapshots, tables, intervals, views>>
    /\ UNCHANGED notDag

\* a running task completes, with the effect of its operator
FinishTask ==
    /\ dag # None
    /\ \E t \in dag.tasks :
           /\ task_state[t] = "running"
           /\ task_state' = [task_state EXCEPT ![t] = "success"]
           /\ tables' =
                 IF t.id = "snapshot_creation__create_tables_batch"
                 THEN tables \cup dag.targets[t]
                 ELSE tables
           /\ xcom_snapshots' =
                 IF t.id = "snapshot_creation__update_state"
                 THEN xcom_snapshots \cup dag.targets[t]
                 ELSE xcom_snapshots
           /\ intervals' =
                 IF t.id = "snapshot_evaluator"
                 THEN intervals \cup {<<t.name, t.n>>}
                 ELSE intervals
           /\ xcom_env' =
                 IF t.id = "snapshot_promotion__update_state"
                 THEN PromotedEnvironment(request, dag.targets[t])
                 ELSE xcom_env
           /\ views' =
                 IF t.id = "snapshot_promotion__create_views_batch"
                 THEN [n \in dag.targets[t] |-> request.plan_id] @@ views
                 ELSE IF t.id = "snapshot_promotion__delete_views_batch"
                      THEN [n \in DOMAIN views \ dag.targets[t] |-> views[n]]
                      ELSE views
    /\ UNCHANGED <<request, dag>>
    /\ UNCHANGED notDag

\* a running engine or state task raises: it fails, and nothing of it is kept
FailTask ==
    /\ dag # None
    /\ \E t \in dag.tasks :
           /\ task_state[t] = "running"
           /\ t.id \in EngineTaskIds
           /\ task_state' = [task_state EXCEPT ![t] = "failed"]
    /\ UNCHANGED <<request, dag, xcom_env, xcom_snapshots, tables, intervals, views>>
    /\ UNCHANGED notDag

\* the ways the planner splits a set of snapshots into batches
Batchings(S) ==
    IF S = {}
    THEN {<<>>, <<{}>>}
    ELSE {<<S>>, <<{}, S>>} \cup {<<{x}, S \ {x}>> : x \in {y \in S : S \ {y} # {}}}

\* a plan over DagNames for the environment: which snapshots are new, which
\* intervals are missing, which views are promoted and which are removed
InitDag ==
    \E new \in {{}, DagNames}, promoted \in {{}, DagNames} :
    \E new_snapshot_batches \in Batchings(new),
       promotion_batches \in Batchings(promoted) :
    \E missing \in [DagNames -> 0..MaxIntervals], edge \in BOOLEAN :
    \E has_previous \in BOOLEAN, demoted \in {{}, {StaleName}} :
        /\ demoted # {} => has_previous
        /\ missing["b"] <= 1
        /\ request =
              [environment_name |-> EnvName,
               new_snapshot_batches |-> new_snapshot_batches,
               backfill_intervals_per_snapshot |->
                   [k \in 1..2 |->
                       [snapshot_id |-> NameOrderDag[k],
                        intervals |-> 1..missing[NameOrderDag[k]]]],
               all_snapshots |->
                   [n \in DagNames |-> IF edge /\ n = "b" THEN {"a"} ELSE {}],
               promotion_batches |-> promotion_batches,
               demotion_batches |-> IF demoted = {} THEN <<>> ELSE <<demoted>>,
               plan_id |-> NewPlanId,
               previous_plan_id |-> IF has_previous THEN PlanId ELSE None]
        /\ dag = None
        /\ task_state = <<>>
        /\ xcom_env = PreviousEnvironment(request)
        /\ xcom_snapshots = {}
        /\ tables = {}
        /\ intervals = {}
        /\ views = IF has_previous
                   THEN [n \in DagNames \cup demoted |-> PlanId]
                   ELSE <<>>
        /\ DiffUnused
        /\ TxnUnused
        /\ MacroUnused
        /\ RenderUnused /\ CronUnused /\ LoadUnused /\ RegistryUnused /\ SelectorUnused

NextDag == GenerateDag \/ StartTask \/ FinishTask \/ FailTask

SpecDag == InitDag /\ [][NextDag]_vars

---------------------------------------------------------------------------
(* Properties of the plan application DAG *)

Generated == dag # None

TasksWithId(id) == {t \in dag.tasks : t.id = id}

Started(t) == task_state[t] # "none"

Succeeded(t) == task_state[t] = "success"

Promoted == Flatten(request.promotion_batches)

Demoted == Flatten(request.demotion_batches)

\* the view of a snapshot is what the new plan wants it to be
ReflectsNewPlan(n) ==
    IF n \in Promoted
    THEN n \in DOMAIN views /\ views[n] = request.plan_id
    ELSE n \notin DOMAIN views

PromotionTasks ==
    TasksWithId("snapshot_promotion__update_state")
        \cup TasksWithId("snapshot_promotion__create_views_batch")
        \cup TasksWithId("snapshot_promotion__delete_views_batch")

\* C11, as stated: the views of the environment change together, so that no
\* state shows one view as the new plan wants it next to a view that is still
\* as the previous plan left it.
C11_ViewsChangeTogether ==
    Generated =>
        ~ \E v \in Promoted \cup Demoted, w \in Promoted \cup Demoted :
              ReflectsNewPlan(v) /\ ~ReflectsNewPlan(w)

\* C12, as stated: once a task of the promotion stage has failed, the stored
\* environment record is the one the previous plan left.
C12_FailedPromotionKeepsEnvironment ==
    (Generated /\ \E t \in PromotionTasks : task_state[t] = "failed")
        => xcom_env = PreviousEnvironment(request)

\* the stage of the plan application a task belongs to
Stage(t) ==
    CASE t.id = "plan_application_start" -> 0
      [] t.id \in {"snapshot_creation_start", "snapshot_creation_end",
                   "snapshot_creation__create_tables_batch",
                   "snapshot_creation__update_state"} -> 1
      [] t.id \in {"snapshot_backfill_start", "snapshot_backfill_end",
                   "snapshot_backfill__start", "snapshot_backfill__end",
                   "snapshot_evaluator"} -> 2
      [] t.id \in {"snapshot_promotion_start", "snapshot_promotion_end",
                   "snapshot_promotion__update_state",
                   "snapshot_promotion__create_views_batch",
                   "snapshot_promotion__delete_views_batch"} -> 3
      [] t.id = "plan_application_end" -> 4

\* C13: a task has started only if every task of every earlier stage has
\* succeeded; so when a view-creation task starts, every table batch has been
\* created, the new snapshots have been pushed and every missing interval
\* has been backfilled.
C13_StagesInOrder ==
    Generated =>
        /\ \A t \in dag.tasks, u \in dag.tasks :
               (Started(t) /\ Stage(u) < Stage(t)) => Succeeded(u)
        /\ \A t \in TasksWithId("snapshot_promotion__create_views_batch") :
               Started(t) =>
                   /\ Flatten(request.new_snapshot_batches) \subseteq tables
                   /\ Flatten(request.new_snapshot_batches) \subseteq xcom_snapshots
                   /\ \A k \in DOMAIN request.backfill_intervals_per_snapshot :
                          LET b == request.backfill_intervals_per_snapshot[k]
                          IN  \A n \in b.intervals : <<b.snapshot_id, n>> \in intervals

\* a view batch is running in a plan that had two table batches to create and
\* intervals of both snapshots to backfill, the child after its parent
C13_Witness ==
    /\ Generated
    /\ \E t \in TasksWithId("snapshot_promotion__create_views_batch") :
           task_state[t] = "running"
    /\ Cardinality(TasksWithId("snapshot_creation__create_tables_batch")) = 2
    /\ TasksWithId("snapshot_creation__update_state") # {}
    /\ \A n \in DagNames : Task("snapshot_evaluator", n, 1) \in dag.tasks
    /\ request.all_snapshots["b"] = {"a"}

\* the snapshots the plan has missing intervals of
Backfilled ==
    {request.backfill_intervals_per_snapshot[k].snapshot_id :
        k \in {x \in DOMAIN request.backfill_intervals_per_snapshot :
                  request.backfill_intervals_per_snapshot[x].intervals # {}}}

\* the tasks of the backfill stage made for a snapshot
BackfillTasksOf(sid) ==
    {t \in dag.tasks :
        /\ t.id \in {"snapshot_backfill__start", "snapshot_backfill__end",
                     "snapshot_evaluator"}
        /\ t.name = sid}

\* C28: in the backfill stage a snapshot's tasks start only after the
\* backfill of every parent that is backfilled too has ended; every task of
\* a snapshot runs between snapshot_backfill_start and
\* snapshot_backfill_end, which runs only after all of them; a snapshot
\* with no intervals gets no task.
C28_BackfillAfterParents ==
    Generated =>
        /\ \A sid \in DagNames \ Backfilled : BackfillTasksOf(sid) = {}
        /\ \A sid \in Backfilled :
               /\ \A k \in DOMAIN request.backfill_intervals_per_snapshot :
                      request.backfill_intervals_per_snapshot[k].snapshot_id = sid
                          => \A n \in request.backfill_intervals_per_snapshot[k].intervals :
                                 Task("snapshot_evaluator", sid, n) \in dag.tasks
               /\ \A t \in BackfillTasksOf(sid) :
                      /\ Started(t) =>
                             /\ Succeeded(Plain("snapshot_backfill_start"))
                             /\ \A parent \in request.all_snapshots[sid] \cap Backfilled :
                                    \A u \in BackfillTasksOf(parent) : Succeeded(u)
                      /\ Started(Plain("snapshot_backfill_end")) => Succeeded(t)

\* an interval of the child is being backfilled after two intervals of its
\* parent were
C28_Witness ==
    /\ Generated
    /\ request.all_snapshots["b"] = {"a"}
    /\ Cardinality(BackfillTasksOf("a")) = 4
    /\ \E t \in BackfillTasksOf("b") :
           t.id = "snapshot_evaluator" /\ task_state[t] = "running"

---------------------------------------------------------------------------
(* EngineAdapter.transaction (sqlmesh/core/engine_adapter.py, lines 267-283) *)

MaxDepth == 2       \* deepest nesting of `with self.transaction()`
MaxLog == 5         \* statements a run sends before it stops opening work

\* an exception: `except Exception` catches the kind "Exception" only
Raised(kind, by) == [kind |-> kind, by |-> by]

NotRun == [kind |-> "not run", by |-> "BEGIN"]

\* cursor.execute either returns or raises a database error
ExecuteOutcomes(statement) == {None, Raised("Exception", statement)}

\* what a body can end with: a normal exit, an error, or an exception that is
\* not an Exception (KeyboardInterrupt, SystemExit)
BodyOutcomes ==
    {None, Raised("Exception", "body"), Raised("BaseException", "body")}

\* mutant: the scope commits whatever the body did
OnExit_AlwaysCommit(e) == <<"COMMIT">>

\* lines 276-281: the statement the scope that began the transaction sends
\* when its body ends with e
OnExit(e) ==
    IF e = None
    THEN <<"COMMIT">>
    ELSE IF e.kind = "Exception" THEN <<"ROLLBACK">> ELSE <<>>

\* lines 270-275: `with self.transaction():` is entered
EnterTransaction ==
    /\ exc = None
    /\ Len(scopes) < MaxDepth
    /\ Len(cursor_log) < MaxLog
    /\ IF in_transaction
       THEN /\ scopes' = Append(scopes, [owner |-> FALSE, issued |-> <<>>])
            /\ UNCHANGED <<in_transaction, cursor_log, exc, finished>>
       ELSE /\ in_transaction' = TRUE
            /\ cursor_log' = Append(cursor_log, "BEGIN")
            /\ \E outcome \in ExecuteOutcomes("BEGIN") :
                   IF outcome = None
                   THEN /\ scopes' = Append(scopes, [owner |-> TRUE,
                                                     issued |-> <<"BEGIN">>])
                        /\ UNCHANGED <<exc, finished>>
                   ELSE /\ exc' = outcome
                        /\ finished' = [owner |-> TRUE, issued |-> <<"BEGIN">>,
                                        body |-> NotRun, raised |-> outcome]
                        /\ UNCHANGED scopes
    /\ UNCHANGED notTxn

\* the body of the innermost scope sends a statement (lines 96-97, 352-359)
Execute ==
    /\ exc = None
    /\ scopes # <<>>
    /\ Len(cursor_log) < MaxLog
    /\ cursor_log' = Append(cursor_log, "INSERT")
    /\ \E outcome \in ExecuteOutcomes("INSERT") : exc' = outcome
    /\ UNCHANGED <<in_transaction, scopes, finished>>
    /\ UNCHANGED notTxn

\* the body of the innermost scope raises by itself
BodyRaises ==
    /\ exc = None
    /\ scopes # <<>>
    /\ \E outcome \in BodyOutcomes \ {None} : exc' = outcome
    /\ UNCHANGED <<in_transaction, cursor_log, scopes, finished>>
    /\ UNCHANGED notTxn

\* lines 271-273 and 276-283: the innermost scope is left, normally when
\* exc is None and by the exception otherwise
ExitTransaction ==
    /\ scopes # <<>>
    /\ LET scope == Last(scopes)
           statements == IF scope.owner THEN OnExit(exc) ELSE <<>>
       IN  /\ scopes' = SubSeq(scopes, 1, Len(scopes) - 1)
           /\ cursor_log' = cursor_log \o statements
           /\ in_transaction' = IF scope.owner THEN FALSE ELSE in_transaction
           /\ \E outcome \in IF statements = <<>>
                             THEN {None}
                             ELSE ExecuteOutcomes(statements[1]) :
                  /\ exc' = IF outcome = None THEN exc ELSE outcome
                  /\ finished' = [owner |-> scope.owner,
                                  issued |-> scope.issued \o statements,
                                  body |-> exc, raised |-> exc']
    /\ UNCHANGED notTxn

\* the caller of the outermost scope handles the exception
Handle ==
    /\ scopes = <<>>
    /\ exc # None
    /\ exc' = None
    /\ UNCHANGED <<in_transaction, cursor_log, scopes, finished>>
    /\ UNCHANGED notTxn

InitTxn == TxnUnused /\ DiffUnused /\ DagUnused /\ MacroUnused /\ RenderUnused /\ CronUnused /\ LoadUnused /\ RegistryUnused /\ SelectorUnused

NextTxn == EnterTransaction \/ Execute \/ BodyRaises \/ ExitTransaction \/ Handle

SpecTxn == InitTxn /\ [][NextTxn]_vars

---------------------------------------------------------------------------
(* Properties of transaction() *)

BeganTransaction == finished # None /\ finished.owner /\ finished.body # NotRun

C29_NestedAsOne ==
    /\ (finished # None /\ ~finished.owner) => finished.issued = <<>>
    /\ (BeganTransaction /\ finished.body # None /\ finished.body.kind = "Exception")
           => finished.issued = <<"BEGIN", "ROLLBACK">>
    /\ scopes = <<>> => ~in_transaction

---------------------------------------------------------------------------
(* Expressions (sqlglot.exp and sqlmesh/core/dialect.py, lines 16-37).  A    *)
(* node has a type, a name (identifiers, function names, text), a value      *)
(* (numbers) and args: arg key -> the child nodes under it, in order.        *)

Node(type, name, value, args) ==
    [type |-> type, name |-> name, value |-> value, args |-> args]

Leaf(type, name) == Node(type, name, 0, <<>>)

Number(n) == Node("Literal", "", n, <<>>)

Text(s) == Node("Literal.string", s, 0, <<>>)

Boolean(b) == Leaf("Boolean", IF b THEN "TRUE" ELSE "FALSE")

Null == Leaf("Null", "")

Column(name) == Leaf("Column", name)

Identifier(name) == Leaf("Identifier", name)

Table(name) == Leaf("Table", name)

Binary(type, left, right) ==
    Node(type, "", 0, [this |-> <<left>>, expression |-> <<right>>])

Array(items) == Node("Array", "", 0, [expressions |-> items])

Lambda(params, body) ==
    Node("Lambda", "", 0,
         [this |-> <<body>>,
          expressions |-> [k \in DOMAIN params |-> Identifier(params[k])]])

Anonymous(name, arguments) == Node("Anonymous", name, 0, [expressions |-> arguments])

Cast(e, to) == Node("Cast", to, 0, [this |-> <<e>>])

Alias(e, alias) ==
    Node("Alias", "", 0, [this |-> <<e>>, alias |-> <<Identifier(alias)>>])

\* dialect.py, lines 16-33 and 71-101
MacroVar(name) == Leaf("MacroVar", name)

MacroFunc(name, arguments) ==
    Node("MacroFunc", name, 0, [this |-> <<Anonymous(name, arguments)>>])

MacroDef(name, e) ==
    Node("MacroDef", name, 0, [this |-> <<Column(name)>>, expression |-> <<e>>])

MacroTypes == {"MacroVar", "MacroFunc", "MacroDef"}

\* isinstance(node, MacroFunc): MacroDef is a MacroFunc (dialect.py, line 24)
IsMacroFunc(node) == node.type \in {"MacroFunc", "MacroDef"}

\* the args that hold a list of nodes; the others hold one node or nothing
ListArgs == {"expressions", "joins"}

Concat(seqs) ==
    LET RECURSIVE upto(_)
        upto(k) == IF k = 0 THEN <<>> ELSE upto(k - 1) \o seqs[k]
    IN  upto(Len(seqs))

\* Expression.find: the node or one below it has one of the types
RECURSIVE Finds(_, _)
Finds(node, types) ==
    \/ node.type \in types
    \/ \E k \in DOMAIN node.args : \E n \in DOMAIN node.args[k] :
           Finds(node.args[k][n], types)

\* exp.replace_children with the result of fun for each child given as
\* replaced[key][n], a sequence: nothing for None, several nodes for a list
SetChildren(node, replaced) ==
    [node EXCEPT !.args =
        [k \in DOMAIN node.args |->
            LET all == Concat(replaced[k])
            IN  IF k \in ListArgs \/ all = <<>> THEN all ELSE <<all[1]>>]]

---------------------------------------------------------------------------
(* MacroEvaluator (sqlmesh/core/macros.py) *)

\* an exception on its way out of the evaluator
Error(kind) == Leaf("Error", kind)

IsError(v) == v.type = "Error"

\* Python's None, as opposed to the expression NULL
PyNone == Leaf("None", "")

HasError(values) == \E k \in DOMAIN values : IsError(values[k])

FirstError(values) ==
    values[CHOOSE k \in DOMAIN values :
               IsError(values[k]) /\ \A m \in 1..(k - 1) : ~IsError(values[m])]

\* bool(value) of a Python value; an Expression object is always true
Truthy(v) ==
    CASE v.type = "Boolean" -> v.name = "TRUE"
      [] v.type = "Literal" -> v.value # 0
      [] v.type = "Literal.string" -> v.name # ""
      [] v.type = "None" -> FALSE
      [] v.type = "list" -> v.args.expressions # <<>>
      [] OTHER -> TRUE

\* a Python list, as opposed to the expression Array
PyList(items) == Node("list", "", 0, [expressions |-> items])

\* exp.convert of a Python value
RECURSIVE Convert(_)
Convert(v) ==
    IF v = PyNone
    THEN Null
    ELSE IF v.type = "list"
         THEN Array([k \in DOMAIN v.args.expressions |-> Convert(v.args.expressions[k])])
         ELSE v

\* lines 284-288: the items a combinator iterates over: the elements of a
\* single array argument, a single argument of another kind as it is, or the
\* arguments themselves when there are several
NormItems(items) ==
    IF Len(items) = 1
    THEN IF items[1].type \in {"Array", "list"}
         THEN [iterable |-> TRUE, items |-> items[1].args.expressions]
         ELSE [iterable |-> FALSE, items |-> items]
    ELSE [iterable |-> TRUE, items |-> items]

KeywordMacros == {"WITH", "JOIN", "WHERE", "GROUP_BY", "HAVING", "ORDER_BY"}

Combinators == {"EACH", "REDUCE", "FILTER"}

\* the registry: the macros of lines 300-522 under their normalized names
Macros == Combinators \cup KeywordMacros

RECURSIVE EvalPython(_, _)
RECURSIVE CallFunc(_, _, _, _)
RECURSIVE ReduceItems(_, _, _, _, _)
RECURSIVE Send(_, _, _, _)
RECURSIVE Substitute(_, _, _, _)
RECURSIVE Transform(_, _)
RECURSIVE EvaluateMacros(_, _)
RECURSIVE Evaluate(_, _)

\* eval of the Python code the MacroDialect generator writes for a node
\* (lines 43-72 and 184-199); scope holds the evaluator's locals and, inside a
\* lambda, its parameters
EvalPython(node, scope) ==
    CASE node.type \in {"Literal", "Literal.string", "Boolean", "None", "list"} -> node
      [] node.type = "Null" -> PyNone
      [] node.type \in {"Identifier", "Column"} ->
            IF node.name \in DOMAIN scope THEN scope[node.name] ELSE Error("NameError")
      [] node.type \in {"Add", "GT"} ->
            LET left == EvalPython(node.args.this[1], scope)
                right == EvalPython(node.args.expression[1], scope)
            IN  IF IsError(left) THEN left
                ELSE IF IsError(right) THEN right
                ELSE IF left.type # "Literal" \/ right.type # "Literal"
                     THEN Error("TypeError")
                     ELSE IF node.type = "Add"
                          THEN Number(left.value + right.value)
                          ELSE Boolean(left.value > right.value)
      [] node.type = "Array" ->
            LET items == [k \in DOMAIN node.args.expressions |->
                             EvalPython(node.args.expressions[k], scope)]
            IN  IF HasError(items) THEN FirstError(items) ELSE PyList(items)
      [] node.type = "Lambda" -> node
      [] node.type = "MacroFunc" ->
            LET func == node.args.this[1]
                arguments == [k \in DOMAIN func.args.expressions |->
                                 EvalPython(func.args.expressions[k], scope)]
            IN  IF HasError(arguments)
                THEN FirstError(arguments)
                ELSE Send("python", func.name, arguments, scope)
      [] OTHER -> Error("SyntaxError")

\* func(*xs): a Python lambda on the "python" path, and on the "ast" path the
\* callable of line 295, which substitutes xs into the lambda's body
CallFunc(path, func, xs, scope) ==
    LET params == [k \in DOMAIN func.args.expressions |-> func.args.expressions[k].name]
        body == func.args.this[1]
    IN  IF path = "python"
        THEN IF Len(params) # Len(xs)
             THEN Error("TypeError")
             ELSE EvalPython(body,
                             [p \in Range(params) |->
                                 xs[CHOOSE k \in DOMAIN params : params[k] = p]] @@ scope)
        ELSE LET out == Substitute(body, params, xs, scope)
             IN  IF out = <<>> THEN PyNone
                 ELSE IF Len(out) = 1 THEN out[1] ELSE PyList(out)

\* functools.reduce(func, items) from the accumulator acc on
ReduceItems(path, func, acc, rest, scope) ==
    IF rest = <<>> \/ IsError(acc)
    THEN acc
    ELSE ReduceItems(path, func, CallFunc(path, func, <<acc, Head(rest)>>, scope),
                     Tail(rest), scope)

\* mutant: the clause is kept whatever the condition
KeywordResult_Always(condition, expression) == expression

\* lines 393, 422, 447, 472, 497, 522:
\* `expression if evaluator.eval_expression(condition) else None`
KeywordResult(condition, expression) ==
    IF Truthy(condition) THEN expression ELSE PyNone

\* lines 108-116 with the macros of lines 300-522
Send(path, name, arguments, scope) ==
    IF name \notin Macros
    THEN Error("SQLMeshError")
    ELSE IF name \in KeywordMacros
    THEN \* lines 371-522: expression if eval_expression(condition) else None
         IF Len(arguments) # 2
         THEN Error("TypeError")
         ELSE LET condition == EvalPython(arguments[1], scope)
              IN  IF IsError(condition)
                  THEN Error("MacroEvalError")
                  ELSE KeywordResult(condition, arguments[2])
    ELSE IF arguments = <<>>
    THEN Error("TypeError")
    ELSE LET func == Last(arguments)
             norm == NormItems(SubSeq(arguments, 1, Len(arguments) - 1))
             items == norm.items
             results == [k \in DOMAIN items |-> CallFunc(path, func, <<items[k]>>, scope)]
             NotNone(v) == v # PyNone
         IN  IF ~norm.iterable THEN Error("TypeError")
             ELSE IF name = "REDUCE"
             THEN IF items = <<>>
                  THEN Error("TypeError")
                  ELSE ReduceItems(path, func, items[1], Tail(items), scope)
             ELSE IF HasError(results) THEN FirstError(results)
             ELSE IF name = "EACH"
             THEN PyList(SelectSeq(results, NotNone))
             ELSE PyList(SelectSeq(items,
                                   LAMBDA x : Truthy(CallFunc(path, func, <<x>>, scope))))

\* lines 266-283: `substitute` applied by body.transform
Substitute(node, params, xs, scope) ==
    IF node.type = "Identifier" /\ node.name \in Range(params)
    THEN LET at == CHOOSE k \in DOMAIN params : params[k] = node.name
         IN  IF at <= Len(xs) THEN <<xs[at]>> ELSE <<Error("IndexError")>>
    ELSE IF IsMacroFunc(node)
    THEN Transform(node,
                   [p \in {q \in Range(params) :
                              (CHOOSE k \in DOMAIN params : params[k] = q) <= Len(xs)} |->
                       xs[CHOOSE k \in DOMAIN params : params[k] = p]] @@ scope)
    ELSE <<SetChildren(node,
                       [k \in DOMAIN node.args |->
                           [n \in DOMAIN node.args[k] |->
                               Substitute(node.args[k][n], params, xs, scope)]])>>

\* lines 121-125: every MacroVar becomes the converted local of its name; a
\* node that was replaced is not visited again
RECURSIVE SubstituteVars(_, _)
SubstituteVars(node, scope) ==
    IF node.type = "MacroVar"
    THEN IF node.name \in DOMAIN scope
         THEN Convert(scope[node.name])
         ELSE Error("KeyError")
    ELSE SetChildren(node,
                     [k \in DOMAIN node.args |->
                         [n \in DOMAIN node.args[k] |->
                             <<SubstituteVars(node.args[k][n], scope)>>]])

\* lines 138-146: a Column in the place of an alias becomes its identifier
RECURSIVE StripAliasColumns(_)
StripAliasColumns(node) ==
    SetChildren(node,
                [k \in DOMAIN node.args |->
                    [n \in DOMAIN node.args[k] |->
                        LET child == node.args[k][n]
                        IN  IF k = "alias" /\ child.type = "Column"
                            THEN <<Identifier(child.name)>>
                            ELSE <<StripAliasColumns(child)>>]])

\* the first Error below a node
RECURSIVE ErrorIn(_)
ErrorIn(node) ==
    IF IsError(node)
    THEN node
    ELSE LET k == CHOOSE key \in DOMAIN node.args :
                      \E n \in DOMAIN node.args[key] : Finds(node.args[key][n], {"Error"})
             n == CHOOSE x \in DOMAIN node.args[k] : Finds(node.args[k][x], {"Error"})
         IN  ErrorIn(node.args[k][n])

\* lines 176-182: what the value a macro returned becomes in the tree: nothing for
\* None, the converted items that are not None for a list, else the
\* converted value
ToExpressions(returned) ==
    IF returned = PyNone
    THEN <<>>
    ELSE IF returned.type = "list"
         THEN LET NotNone(v) == v # PyNone
                  kept == SelectSeq(returned.args.expressions, NotNone)
              IN  [k \in DOMAIN kept |-> Convert(kept[k])]
         ELSE <<Convert(returned)>>

\* lines 164-182
Evaluate(node, scope) ==
    IF node.type = "MacroDef"
    THEN <<node>>
    ELSE IF Finds(node, {"Error"})
    THEN <<ErrorIn(node)>>
    ELSE IF ~Finds(node, {"Column", "Table"})
    THEN LET returned == EvalPython(node, scope)
         IN  IF IsError(returned) THEN <<Error("MacroEvalError")>> ELSE ToExpressions(returned)
    ELSE LET func == node.args.this[1]
             returned == Send("ast", func.name, func.args.expressions, scope)
         IN  IF IsError(returned) THEN <<returned>> ELSE ToExpressions(returned)

\* lines 127-134
EvaluateMacros(node, scope) ==
    LET replaced ==
            SetChildren(node,
                        [k \in DOMAIN node.args |->
                            [n \in DOMAIN node.args[k] |->
                                IF node.args[k][n].type = "Lambda"
                                THEN <<node.args[k][n]>>
                                ELSE EvaluateMacros(node.args[k][n], scope)]])
    IN  IF IsMacroFunc(node) THEN Evaluate(replaced, scope) ELSE <<replaced>>

\* lines 118-148: the expressions transform returns: none for None, one, or
\* several; an exception is an Error in their place
Transform(query, scope) ==
    LET substituted == SubstituteVars(query, scope)
        evaluated == IF Finds(substituted, {"Error"})
                       THEN <<ErrorIn(substituted)>>
                       ELSE EvaluateMacros(substituted, scope)
    IN  IF \E k \in DOMAIN evaluated : Finds(evaluated[k], {"Error"})
        THEN <<ErrorIn(evaluated[CHOOSE k \in DOMAIN evaluated :
                                    Finds(evaluated[k], {"Error"})])>>
        ELSE [k \in DOMAIN evaluated |-> StripAliasColumns(evaluated[k])]

\* line 166: the locals after the definitions standing in a query were
\* evaluated (a query holds at most one definition of a name)
RECURSIVE Definitions(_)
Definitions(node) ==
    (IF node.type = "MacroDef" THEN {node} ELSE {})
        \cup UNION {UNION {IF node.args[k][n].type = "Lambda"
                           THEN {}
                           ELSE Definitions(node.args[k][n])
                           : n \in DOMAIN node.args[k]}
                    : k \in DOMAIN node.args}

\* evaluator.locals at an exception: <<locals>> when one was raised, <<>>
\* when none was
NoRaise == <<>>

RaisedWith(expressions, scope) ==
    IF \E k \in DOMAIN expressions : Finds(expressions[k], {"Error"})
    THEN <<scope>>
    ELSE NoRaise

\* the first exception ends the evaluation
OrElse(raise, later) == IF raise # NoRaise THEN raise ELSE later

FirstRaise(raises) ==
    IF \E k \in DOMAIN raises : raises[k] # NoRaise
    THEN raises[CHOOSE k \in DOMAIN raises :
                    raises[k] # NoRaise /\ \A m \in DOMAIN raises :
                                              raises[m] # NoRaise => k <= m]
    ELSE NoRaise

AnyRaise(raises) ==
    IF \E pos \in DOMAIN raises : raises[pos] # NoRaise
    THEN raises[CHOOSE pos \in DOMAIN raises : raises[pos] # NoRaise]
    ELSE NoRaise

\* the places of the children of a node
Places(node) == UNION {{<<k, n>> : n \in DOMAIN node.args[k]} : k \in DOMAIN node.args}

RECURSIVE SubstituteRaise(_, _, _, _)
RECURSIVE ReduceRaise(_, _, _, _)
RECURSIVE SendRaise(_, _, _)
RECURSIVE EvaluateMacrosRaise(_, _)
RECURSIVE TransformRaise(_, _)

\* lines 266-283: evaluator.locals if `substitute`, walking the body of a
\* lambda, raises. Lines 277-278 bind the parameters and line 280 restores
\* the copy of line 276; an exception raised by line 279 leaves line 280 out
SubstituteRaise(node, params, xs, scope) ==
    IF node.type = "Identifier" /\ node.name \in Range(params)
    THEN IF (CHOOSE k \in DOMAIN params : params[k] = node.name) <= Len(xs)
         THEN NoRaise
         ELSE <<scope>>
    ELSE IF IsMacroFunc(node)
    THEN TransformRaise(node,
                        [p \in {q \in Range(params) :
                                   (CHOOSE k \in DOMAIN params : params[k] = q) <= Len(xs)} |->
                            xs[CHOOSE k \in DOMAIN params : params[k] = p]] @@ scope)
    ELSE AnyRaise([pos \in Places(node) |->
                      SubstituteRaise(node.args[pos[1]][pos[2]], params, xs, scope)])

\* evaluator.locals if functools.reduce(func, items) raises
ReduceRaise(func, acc, rest, scope) ==
    IF rest = <<>>
    THEN NoRaise
    ELSE OrElse(SubstituteRaise(func.args.this[1],
                                [k \in DOMAIN func.args.expressions |->
                                    func.args.expressions[k].name],
                                <<acc, Head(rest)>>, scope),
                ReduceRaise(func, CallFunc("ast", func, <<acc, Head(rest)>>, scope),
                            Tail(rest), scope))

\* evaluator.locals if the lambda of a combinator called by send (lines
\* 108-116) raises
SendRaise(name, arguments, scope) ==
    IF name \notin Combinators \/ arguments = <<>>
    THEN NoRaise
    ELSE IF \/ ~NormItems(SubSeq(arguments, 1, Len(arguments) - 1)).iterable
            \/ Last(arguments).type # "Lambda"
    THEN NoRaise
    ELSE IF name = "REDUCE"
    THEN IF NormItems(SubSeq(arguments, 1, Len(arguments) - 1)).items = <<>>
         THEN NoRaise
         ELSE ReduceRaise(Last(arguments),
                          Head(NormItems(SubSeq(arguments, 1, Len(arguments) - 1)).items),
                          Tail(NormItems(SubSeq(arguments, 1, Len(arguments) - 1)).items),
                          scope)
    ELSE FirstRaise([k \in DOMAIN NormItems(SubSeq(arguments, 1, Len(arguments) - 1)).items |->
                        SubstituteRaise(
                            Last(arguments).args.this[1],
                            [n \in DOMAIN Last(arguments).args.expressions |->
                                Last(arguments).args.expressions[n].name],
                            <<NormItems(SubSeq(arguments, 1, Len(arguments) - 1)).items[k]>>,
                            scope)])

\* lines 164-182: evaluator.locals if evaluate raises for a node, given what
\* it evaluated to; the arguments of a combinator over columns are read as
\* written (the queries hold no macro in them outside the lambda)
EvaluateRaise(node, evaluated, scope) ==
    OrElse(IF node.type = "MacroFunc" /\ Finds(node, {"Column", "Table"})
           THEN SendRaise(node.args.this[1].name, node.args.this[1].args.expressions, scope)
           ELSE NoRaise,
           RaisedWith(evaluated, scope))

\* lines 127-134: evaluator.locals if evaluate_macros raises
EvaluateMacrosRaise(node, scope) ==
    OrElse(AnyRaise([pos \in {at \in Places(node) :
                                 node.args[at[1]][at[2]].type # "Lambda"} |->
                        EvaluateMacrosRaise(node.args[pos[1]][pos[2]], scope)]),
           IF IsMacroFunc(node)
           THEN EvaluateRaise(node, EvaluateMacros(node, scope), scope)
           ELSE NoRaise)

\* lines 118-148: evaluator.locals if transform raises
TransformRaise(query, scope) ==
    IF Finds(SubstituteVars(query, scope), {"Error"})
    THEN <<scope>>
    ELSE EvaluateMacrosRaise(SubstituteVars(query, scope), scope)

\* what a call left in evaluator.locals
LocalsLeft(raise, scope) == IF raise = NoRaise THEN scope ELSE raise[1]

\* evaluator.locals after transform(query): the definitions of the query
\* bound, and what the lambdas of its combinators left
LocalsAfter(query, scope) ==
    LET defs == Definitions(SubstituteVars(query, scope))
    IN  [name \in {d.name : d \in defs} |->
            (CHOOSE d \in defs : d.name = name).args.expression[1]]
            @@ LocalsLeft(TransformRaise(query, scope), scope)

---------------------------------------------------------------------------
(* Queries (sqlglot.exp.Select and the clauses the keyword macros absorb,  *)
(* sqlmesh/core/dialect.py, lines 118-188)                                  *)

Where(condition) == Node("Where", "", 0, [this |-> <<condition>>])

Having(condition) == Node("Having", "", 0, [this |-> <<condition>>])

Group(by) == Node("Group", "", 0, [expressions |-> by])

Order(by) == Node("Order", "", 0, [expressions |-> by])

Join(to) == Node("Join", "", 0, [this |-> <<to>>])

CTE(alias, query) == Node("CTE", alias, 0, [this |-> <<query>>])

With(ctes) == Node("With", "", 0, [expressions |-> ctes])

\* every clause is the sequence of the nodes under its arg: none or one, and
\* any number under expressions and joins
Select(ctes, projections, tbl, joined, where, group, having, order) ==
    Node("Select", "", 0,
         [with |-> ctes, expressions |-> projections, from |-> tbl,
          joins |-> joined, where |-> where, group |-> group,
          having |-> having, order |-> order])

\* SELECT <projections> FROM t
SelectFrom(projections) ==
    Select(<<>>, projections, <<Table("t")>>, <<>>, <<>>, <<>>, <<>>, <<>>)

\* dialect.py, lines 118-177: the arg of the select a keyword macro stands in
ClauseKey ==
    [WITH |-> "with", JOIN |-> "joins", WHERE |-> "where",
     GROUP_BY |-> "group", HAVING |-> "having", ORDER_BY |-> "order"]

---------------------------------------------------------------------------
(* One rendering: Model._render_query (sqlmesh/core/model.py), lines 825-833 *)

MaxItems == 3       \* longest array literal given to a combinator

\* the clause a keyword macro absorbed, as parsed after the macro's condition
ClauseOf ==
    [WITH |-> With(<<CTE("u", SelectFrom(<<Column("x")>>))>>),
     JOIN |-> Join(Table("u")),
     WHERE |-> Where(Binary("GT", Column("x"), Number(1))),
     GROUP_BY |-> Group(<<Column("x")>>),
     HAVING |-> Having(Binary("GT", Column("x"), Number(1))),
     ORDER_BY |-> Order(<<Column("x")>>)]

Conditions ==
    {Boolean(TRUE), Boolean(FALSE), Number(0), Number(1), Null, MacroVar("flag")}

\* SELECT x, y AS c FROM t with the clause macro `@name(condition) <clause>`
ClauseQuery(name, condition) ==
    [SelectFrom(<<Column("x"), Alias(Column("y"), "c")>>)
        EXCEPT !.args[ClauseKey[name]] = <<MacroFunc(name, <<condition, ClauseOf[name]>>)>>]

ClauseQueries == {ClauseQuery(name, c) : name \in KeywordMacros, c \in Conditions}

\* [1, ..., n]
Numbers(n) == Array([k \in 1..n |-> Number(k)])

\* x -> x > k
GreaterThan(k) == Lambda(<<"x">>, Binary("GT", Identifier("x"), Number(k)))

\* x -> x + 1
PlusOne == Lambda(<<"x">>, Binary("Add", Identifier("x"), Number(1)))

\* x -> NULL
ToNull == Lambda(<<"x">>, Null)

\* (x, y) -> x + y
Sum == Lambda(<<"x", "y">>, Binary("Add", Identifier("x"), Identifier("y")))

\* combinators over array literals and over the result of a @FILTER
CombinatorQueries ==
    LET arrays == {Numbers(n) : n \in 0..MaxItems}
        filters == {MacroFunc("FILTER", <<a, GreaterThan(k)>>) :
                        a \in arrays, k \in 0..MaxItems}
    IN  filters
        \cup {MacroFunc("EACH", <<a, f>>) : a \in arrays \cup filters, f \in {PlusOne, ToNull}}
        \cup {MacroFunc("REDUCE", <<a, Sum>>) : a \in arrays \cup filters}

\* macros in the places a query can hold them
PlacedQueries ==
    {SelectFrom(<<Alias(MacroVar("v"), "c")>>),
     SelectFrom(<<Column("x"), MacroVar("d")>>),
     SelectFrom(<<MacroFunc("EACH", <<Array(<<Column("a"), Column("b")>>),
                                      Lambda(<<"x">>, Identifier("x"))>>)>>),
     SelectFrom(<<MacroDef("z", Number(1)), Column("x")>>),
     SelectFrom(<<Anonymous("TRANSFORM",
                            <<Column("xs"),
                              Lambda(<<"x">>,
                                     MacroFunc("EACH", <<Array(<<Identifier("x")>>),
                                                         PlusOne>>))>>)>>)}

\* queries that call @X, which no macro is registered as: SELECT @X(a) FROM t,
\* SELECT @X(1) FROM t and SELECT @X(a, 1), b FROM t
UnknownMacroQueries ==
    {SelectFrom(<<MacroFunc("X", <<Column("a")>>)>>),
     SelectFrom(<<MacroFunc("X", <<Number(1)>>)>>),
     SelectFrom(<<MacroFunc("X", <<Column("a"), Number(1)>>), Column("b")>>)}

\* combinators over columns whose lambda calls a macro: @X, which does not
\* exist, or @EACH
LambdaMacroQueries ==
    {MacroFunc(name, <<Array(<<Column("a"), Column("b")>>),
                       Lambda(<<"x">>, MacroFunc(called, <<Identifier("x")>>))>>) :
         name \in {"EACH", "FILTER"}, called \in {"X", "EACH"}}
        \cup {MacroFunc("EACH", <<Array(<<Column("a"), Column("b")>>),
                                  Lambda(<<"x">>,
                                         MacroFunc("EACH", <<Array(<<Identifier("x")>>),
                                                             Lambda(<<"y">>, Identifier("y"))>>))>>),
              MacroFunc("REDUCE", <<Array(<<Column("a"), Column("b")>>),
                                    Lambda(<<"x", "y">>,
                                           MacroFunc("X", <<Identifier("x"),
                                                            Identifier("y")>>))>>)}

\* the model's @DEF statements (Model.macro_definitions, lines 1039-1041)
DefinitionLists ==
    {<<>>,
     <<MacroDef("d", Number(2))>>,
     <<MacroDef("d", MacroVar("v"))>>,
     <<MacroDef("d", Number(2)), MacroDef("flag", Boolean(FALSE))>>}

\* evaluate's lines 165-167: a definition binds its name to its expression
Define(definition, scope) ==
    (definition.name :> definition.args.expression[1]) @@ scope

\* lines 826-828: a new evaluator whose locals are the caller's variables
InitMacro ==
    /\ \E query \in ClauseQueries \cup CombinatorQueries \cup PlacedQueries
                          \cup UnknownMacroQueries \cup LambdaMacroQueries :
           source = query
    /\ \E definitions \in DefinitionLists : macro_definitions = definitions
    /\ \E flag \in BOOLEAN, v \in 1..2 :
           evaluator_locals = [flag |-> Boolean(flag), v |-> Number(v)]
    /\ transformed = <<>>
    /\ macro_pc = "definitions"
    /\ DiffUnused /\ DagUnused /\ TxnUnused /\ RenderUnused /\ CronUnused /\ LoadUnused /\ RegistryUnused /\ SelectorUnused

\* lines 830-831 with evaluate's lines 165-167
EvaluateDefinition ==
    /\ macro_pc = "definitions"
    /\ macro_definitions # <<>>
    /\ evaluator_locals' = Define(Head(macro_definitions), evaluator_locals)
    /\ macro_definitions' = Tail(macro_definitions)
    /\ UNCHANGED <<source, transformed, macro_pc>>
    /\ UNCHANGED notMacro

\* line 833
TransformQuery ==
    /\ macro_pc = "definitions"
    /\ macro_definitions = <<>>
    /\ transformed' = Transform(source, evaluator_locals)
    /\ evaluator_locals' = LocalsAfter(source, evaluator_locals)
    /\ macro_pc' = "done"
    /\ UNCHANGED <<source, macro_definitions>>
    /\ UNCHANGED notMacro

NextMacro == EvaluateDefinition \/ TransformQuery

SpecMacro == InitMacro /\ [][NextMacro]_vars

---------------------------------------------------------------------------
(* Properties of macro evaluation *)

Rendered == macro_pc = "done" /\ ~HasError(transformed)

\* C17: once a query is rendered without an error, no MacroVar, MacroFunc
\* or MacroDef node is left in it, wherever the macro stood in the source
C17_NoMacroLeft ==
    Rendered => \A k \in DOMAIN transformed : ~Finds(transformed[k], MacroTypes)

\* the condition of a clause macro is true for Python
ConditionHolds(condition) ==
    \/ condition \in {Boolean(TRUE), Number(1)}
    \/ condition = MacroVar("flag") /\ evaluator_locals["flag"] = Boolean(TRUE)

\* SELECT x, y AS c FROM t with the plain clauses given
SelectWith(key, clauses) ==
    [SelectFrom(<<Column("x"), Alias(Column("y"), "c")>>) EXCEPT !.args[key] = clauses]

RECURSIVE ItemsOf(_)
ItemsOf(node) ==
    IF node.type = "Array"
    THEN [k \in DOMAIN node.args.expressions |-> node.args.expressions[k].value]
    ELSE LET arguments == node.args.this[1].args.expressions
             bound == arguments[2].args.this[1].args.expression[1].value
             Above(x) == x > bound
         IN  SelectSeq(ItemsOf(arguments[1]), Above)

RECURSIVE LeftFoldSum(_)
LeftFoldSum(numbers) ==
    IF Len(numbers) = 1
    THEN numbers[1]
    ELSE LeftFoldSum(SubSeq(numbers, 1, Len(numbers) - 1)) + Last(numbers)

\* what the list operators give for a query of CombinatorQueries
ListResult(query) ==
    LET arguments == query.args.this[1].args.expressions
        items == ItemsOf(arguments[1])
    IN  CASE query.name = "FILTER" ->
                LET kept == ItemsOf(query) IN [k \in DOMAIN kept |-> Number(kept[k])]
          [] query.name = "EACH" ->
                IF arguments[2] = PlusOne
                THEN [k \in DOMAIN items |-> Number(items[k] + 1)]
                ELSE <<>>
          [] query.name = "REDUCE" -> <<Number(LeftFoldSum(items))>>

\* C19: @EACH is the map without the None results, @FILTER keeps the items
\* its function is truthy for, in order, and @REDUCE is the left fold of its
\* function over the items (one item at least)
C19_ListOperators ==
    (/\ macro_pc = "done"
     /\ source \in CombinatorQueries
     /\ source.name = "REDUCE"
            => ItemsOf(source.args.this[1].args.expressions[1]) # <<>>)
        => transformed = ListResult(source)

\* the query calls a macro that is not registered
CallsUnknownMacro(node) ==
    \E k \in DOMAIN node.args.expressions :
        /\ node.args.expressions[k].type = "MacroFunc"
        /\ node.args.expressions[k].name \notin Macros

\* C23: a query that calls a macro that does not exist fails with a
\* MacroEvalError, whether or not the arguments of the call name columns or
\* tables.
C23_UnknownMacroIsMacroEvalError ==
    (macro_pc = "done" /\ CallsUnknownMacro(source))
        => transformed = <<Error("MacroEvalError")>>

\* the query is a call of @EACH, @FILTER or @REDUCE
IsCombinatorCall(node) ==
    /\ node.type = "MacroFunc"
    /\ node.args.this[1].name \in Combinators

\* C27: a combinator's lambda does not leak its bindings: when @EACH,
\* @FILTER or @REDUCE has finished, normally or because the lambda's body
\* raised, the evaluator's locals are what they were before the call.
C27_LambdaBindingsDoNotLeak ==
    [][(macro_pc = "definitions" /\ macro_pc' = "done" /\ IsCombinatorCall(source))
           => evaluator_locals' = evaluator_locals]_vars

---------------------------------------------------------------------------
(* Rendering (sqlmesh/core/model.py, lines 776-917 and 1020-1150)          *)

MaxDay == 2         \* run windows lie in the days 1..MaxDay of January 2021
MaxRenders == 2     \* render calls made on one model

\* EPOCH_DS (line 296) as a day
Epoch == 0

Subquery(query, alias) == Node("Subquery", alias, 0, [this |-> <<query>>])

Union(left, right) ==
    Node("Union", "", 0, [with |-> <<>>, this |-> <<left>>, expression |-> <<right>>])

Between(e, low, high) ==
    Node("Between", "", 0, [this |-> <<e>>, low |-> <<low>>, high |-> <<high>>])

\* a number literal written as text
NumberText(text) == Node("Literal", text, 0, <<>>)

Subqueryable == {"Select", "Union"}

TextTypes == {"TEXT", "VARCHAR"}

NumericTypes == {"INT", "BIGINT"}

TemporalTypes == {"DATE", "TIMESTAMP"}

\* a day as %Y-%m-%d
DateText(day) ==
    IF day = Epoch THEN "1970-01-01" ELSE "2021-01-0" \o ToString(day)

\* to_datetime(time).strftime(fmt) for the formats of TimeFormats
FormatTime(day, format) ==
    IF format = "%Y%m%d" THEN "2021010" \o ToString(day) ELSE DateText(day)

\* date_dict: the variables of the run window
DateDict(start, end, latest) ==
    [start_ds |-> Text(DateText(start)),
     end_ds |-> Text(DateText(end)),
     latest_ds |-> Text(DateText(latest))]

\* lines 809-812
CacheKey(audit_name, call) == <<audit_name, call.start, call.end, call.latest>>

\* lines 830-831
RECURSIVE EvaluateDefinitions(_, _)
EvaluateDefinitions(definitions, scope) ==
    IF definitions = <<>>
    THEN scope
    ELSE EvaluateDefinitions(Tail(definitions), Define(Head(definitions), scope))

\* lines 825-835 and 864-867: the cache after a call with the key, and the
\* query returned, an Error when the call raises; fresh is what transform
\* gives for the query, which a hit does not look at
Cached(cache, key, fresh) ==
    IF key \in DOMAIN cache
    THEN [cache |-> cache,
          query |-> IF Len(cache[key]) = 1 /\ cache[key][1].type \in Subqueryable
                    THEN cache[key][1]
                    ELSE Error("SQLMeshError")]
    ELSE IF HasError(fresh)
    THEN [cache |-> cache, query |-> fresh[1]]
    ELSE [cache |-> (key :> fresh) @@ cache,
          query |-> IF Len(fresh) = 1 /\ fresh[1].type \in Subqueryable
                    THEN fresh[1]
                    ELSE Error("SQLMeshError")]

\* _render_query without snapshots, mapping or expand (lines 809-867)
InnerRender(cache, m, query, audit_name, call) ==
    Cached(cache, CacheKey(audit_name, call),
           Transform(query,
                     EvaluateDefinitions(m.macro_definitions,
                                         DateDict(call.start, call.end, call.latest)
                                             @@ call.kwargs)))

\* Expression.alias_or_name of a projection
AliasOrName(projection) ==
    IF projection.type = "Alias"
    THEN projection.args.alias[1].name
    ELSE IF projection.type = "Cast"
    THEN projection.args.this[1].name
    ELSE projection.name

\* the projections of a query named as the time column
TimeProjections(query, column) ==
    IF "expressions" \in DOMAIN query.args
    THEN SelectSeq(query.args.expressions, LAMBDA p : AliasOrName(p) = column)
    ELSE <<>>

\* the Cast a projection is made of: Expression.find(exp.Cast)
CastOf(projection) ==
    IF projection.type = "Cast"
    THEN <<projection>>
    ELSE IF projection.type = "Alias" /\ projection.args.this[1].type = "Cast"
         THEN <<projection.args.this[1]>>
         ELSE <<>>

\* lines 745-749: the type the projection named as the time column is cast
\* to in the query rendered without arguments
CastType(m, rendered) ==
    IF IsError(rendered)
    THEN rendered
    ELSE IF "expressions" \notin DOMAIN rendered.args
    THEN Error("KeyError")
    ELSE IF \E k \in DOMAIN rendered.args.expressions :
                CastOf(rendered.args.expressions[k]) = <<>>
    THEN Error("AttributeError")
    ELSE IF TimeProjections(rendered, m.time_column.column) = <<>>
    THEN Error("KeyError")
    ELSE Leaf("DataType",
              CastOf(Last(TimeProjections(rendered, m.time_column.column)))[1].name)

\* lines 745-749 on the result of rendering the query without arguments
TypeInQuery(m, inner) ==
    [cache |-> inner.cache, type |-> CastType(m, inner.query)]

\* Model.columns (lines 740-750) at the time column: the declared type, or
\* the type found in the query; with the cache after the lookup
TimeColumnType(cache, m) ==
    IF m.columns_ # <<>>
    THEN [cache |-> cache,
          type |-> IF m.time_column.column \in DOMAIN m.columns_
                   THEN Leaf("DataType", m.columns_[m.time_column.column])
                   ELSE Error("KeyError")]
    ELSE TypeInQuery(m, InnerRender(cache, m, m.query, "",
                                    [op |-> "columns", start |-> Epoch, end |-> Epoch,
                                     latest |-> Epoch, kwargs |-> <<>>]))

\* convert_to_time_column (lines 1020-1037)
ConvertToTimeColumn(m, type, day) ==
    LET time == FormatTime(day, m.time_column.format)
    IN  CASE type \in TextTypes -> Text(time)
          [] type \in NumericTypes -> NumberText(time)
          [] type \in TemporalTypes -> Cast(Text(time), type)
          [] OTHER -> Text(DateText(day))

\* mutant: the predicate goes to WHERE whatever the select groups by
FilterKey_Where(select) == "where"

\* lines 1147-1150
FilterKey(select) == IF select.args.group = <<>> THEN "where" ELSE "having"

\* Select.where / Select.having with append: the condition is conjoined
\* with the one the clause holds
Conjoin(select, key, condition) ==
    LET held == select.args[key]
        clause(c) == IF key = "where" THEN Where(c) ELSE Having(c)
    IN  [select EXCEPT !.args[key] =
            <<IF held = <<>>
              THEN clause(condition)
              ELSE clause(Binary("And", held[1].args.this[1], condition))>>]

\* _filter_time_column (lines 1126-1150)
FilterTimeColumn(select, column, low, high) ==
    LET named == TimeProjections(select, column)
        projection == IF named[1].type = "Alias" THEN named[1].args.this[1] ELSE named[1]
    IN  IF named = <<>>
        THEN Error("StopIteration")
        ELSE Conjoin(select, FilterKey(select), Between(projection, low, high))

\* mutant: only a query that is a SELECT itself is filtered
FilterSelects_RootOnly(node, column, low, high) ==
    IF node.type = "Select" THEN FilterTimeColumn(node, column, low, high) ELSE node

\* lines 912-915: the walk is pruned at every SELECT, so the SELECTs reached
\* are those that do not stand below another SELECT
RECURSIVE FilterSelects(_, _, _, _)
FilterSelects(node, column, low, high) ==
    IF node.type = "Select"
    THEN FilterTimeColumn(node, column, low, high)
    ELSE SetChildren(node,
                     [k \in DOMAIN node.args |->
                         [n \in DOMAIN node.args[k] |->
                             <<FilterSelects(node.args[k][n], column, low, high)>>]])

\* the order of the SQL text of two conditions, as far as the conditions of
\* the rendered queries go: CAST(...) stands before a column name, column
\* names are in the order of ColumnOrder, and so are the operators
ColumnOrder == <<"ds", "x", "y">>

OperatorOrder == <<"LT", "LTE", "EQ", "GT", "GTE">>

Position(seq, x) == CHOOSE k \in DOMAIN seq : seq[k] = x

SqlBefore(a, b) ==
    LET lead(c) == IF c.args.this[1].type = "Cast"
                   THEN 0
                   ELSE Position(ColumnOrder, c.args.this[1].name)
        operator(c) == Position(OperatorOrder, c.type)
    IN  \/ lead(a) < lead(b)
        \/ lead(a) = lead(b) /\ operator(a) < operator(b)

\* the first occurrence of every item
RECURSIVE Uniq(_)
Uniq(seq) ==
    IF seq = <<>>
    THEN <<>>
    ELSE LET front == Uniq(SubSeq(seq, 1, Len(seq) - 1))
         IN  IF Last(seq) \in Range(front) THEN front ELSE Append(front, Last(seq))

\* exp.and_ of conditions
RECURSIVE AndOf(_)
AndOf(conditions) ==
    IF Len(conditions) = 1
    THEN conditions[1]
    ELSE Binary("And", AndOf(SubSeq(conditions, 1, Len(conditions) - 1)),
                Last(conditions))

\* sqlglot's simplify on the conditions of the rendered queries (line 917;
\* tests/core/test_model.py, lines 533-598): a BETWEEN becomes the pair of
\* comparisons, and the operands of a conjunction lose their duplicates and
\* are put in the order of their SQL text
RECURSIVE Simplify(_)
RECURSIVE Operands(_)
Operands(node) ==
    CASE node.type = "And" ->
            Operands(node.args.this[1]) \o Operands(node.args.expression[1])
      [] node.type = "Between" ->
            <<Binary("GTE", node.args.this[1], node.args.low[1]),
              Binary("LTE", node.args.this[1], node.args.high[1])>>
      [] OTHER -> <<Simplify(node)>>

Simplify(node) ==
    IF node.type \in {"And", "Between"}
    THEN AndOf(SortSeq(Uniq(Operands(node)), SqlBefore))
    ELSE SetChildren(node,
                     [k \in DOMAIN node.args |->
                         [n \in DOMAIN node.args[k] |-> <<Simplify(node.args[k][n])>>]])

\* line 917, or the error the filter raised
Simplified(filtered) ==
    IF Finds(filtered, {"Error"}) THEN <<ErrorIn(filtered)>> ELSE <<Simplify(filtered)>>

\* lines 909-915 for an incremental model: the filter between the two ends
\* of the window converted to the time column's type; column is the type of
\* the time column with the cache after looking it up
Filtered(m, call, query, column) ==
    [cache |-> column.cache,
     queries |-> IF IsError(column.type)
                 THEN <<column.type>>
                 ELSE Simplified(FilterSelects(
                          query, m.time_column.column,
                          ConvertToTimeColumn(m, column.type.name, call.start),
                          ConvertToTimeColumn(m, column.type.name, call.end)))]

\* lines 909-917 on the query _render_query returned
RenderedFrom(m, call, inner) ==
    IF IsError(inner.query)
    THEN [cache |-> inner.cache, queries |-> <<inner.query>>]
    ELSE IF m.kind # "incremental"
    THEN [cache |-> inner.cache, queries |-> <<Simplify(inner.query)>>]
    ELSE Filtered(m, call, inner.query, TimeColumnType(inner.cache, m))

\* render_query (lines 898-917): the cache after the call and the queries
\* returned: one, or the Error raised
RenderQuery(cache, m, call) ==
    RenderedFrom(m, call, InnerRender(cache, m, m.query, "", call))

\* lines 984-996 after one audit's query: the queries of the audits that
\* follow it are taken unless it raised
Yielded(inner, rest) ==
    IF IsError(inner.query)
    THEN [cache |-> inner.cache, queries |-> <<inner.query>>]
    ELSE IF HasError(rest.queries)
    THEN rest
    ELSE [cache |-> rest.cache, queries |-> <<inner.query>> \o rest.queries]

\* render_audit_queries (lines 984-996), every audit's query taken from the
\* generator, up to the first that raises
RECURSIVE RenderAudits(_, _, _, _)
RECURSIVE RenderAuditsAfter(_, _, _, _)
RenderAuditsAfter(inner, m, audits, call) ==
    Yielded(inner, RenderAudits(inner.cache, m, Tail(audits), call))

RenderAudits(cache, m, audits, call) ==
    IF audits = <<>>
    THEN [cache |-> cache, queries |-> <<>>]
    ELSE RenderAuditsAfter(InnerRender(cache, m, Head(audits).query,
                                       Head(audits).name, call),
                           m, audits, call)

Render(cache, m, call) ==
    IF call.op = "render_query"
    THEN RenderQuery(cache, m, call)
    ELSE RenderAudits(cache, m, m.audits, call)

---------------------------------------------------------------------------
(* The models rendered, and the render calls *)

TimeFormats == {"%Y%m%d", "%Y-%m-%d"}

\* ds::<type> AS ds
TimeProjection(type) == Alias(Cast(Column("ds"), type), "ds")

\* x::INT AS x
OtherProjection == Alias(Cast(Column("x"), "INT"), "x")

\* SELECT x::INT AS x, ds::<type> AS ds FROM <tbl> with the clauses given
TimeSelect(type, ctes, tbl, where, group, having) ==
    Select(ctes, <<OtherProjection, TimeProjection(type)>>, tbl, <<>>,
           where, group, having, <<>>)

PlainSelect(type) == TimeSelect(type, <<>>, <<Table("t")>>, <<>>, <<>>, <<>>)

OtherCondition == Binary("GT", Column("x"), Number(1))

\* the queries of incremental models: plain, with a condition, with the
\* filter of day 1 already there, grouped, over a subquery, over a CTE, and
\* unions
IncrementalQueries(type, format) ==
    LET text == ConvertToTimeColumn([time_column |-> [format |-> format]], type, 1)
        time == Cast(Column("ds"), type)
    IN  {PlainSelect(type),
         TimeSelect(type, <<>>, <<Table("t")>>, <<Where(OtherCondition)>>, <<>>, <<>>),
         TimeSelect(type, <<>>, <<Table("t")>>,
                    <<Where(Binary("And", Binary("LTE", time, text),
                                   Binary("GTE", time, text)))>>, <<>>, <<>>),
         TimeSelect(type, <<>>, <<Table("t")>>, <<>>, <<Group(<<Column("ds")>>)>>, <<>>),
         TimeSelect(type, <<>>, <<Table("t")>>, <<Where(OtherCondition)>>,
                    <<Group(<<Column("ds")>>)>>, <<Having(OtherCondition)>>),
         TimeSelect(type, <<>>, <<Subquery(PlainSelect(type), "u")>>, <<>>, <<>>, <<>>),
         TimeSelect(type, <<With(<<CTE("u", PlainSelect(type))>>)>>, <<Table("u")>>,
                    <<>>, <<>>, <<>>),
         Union(PlainSelect(type),
               TimeSelect(type, <<>>, <<Subquery(PlainSelect(type), "u")>>,
                          <<Where(OtherCondition)>>, <<>>, <<>>)),
         Union(PlainSelect(type), SelectFrom(<<OtherProjection>>))}

\* a Model (lines 540-640) as far as rendering reads it
IncrementalModel(query, type, format, declared) ==
    [kind |-> "incremental", query |-> query,
     time_column |-> [column |-> "ds", format |-> format],
     columns_ |-> IF declared THEN [ds |-> type] ELSE <<>>,
     macro_definitions |-> <<>>, audits |-> <<>>]

FullModel(query, definitions, audits) ==
    [kind |-> "full", query |-> query,
     time_column |-> [column |-> "", format |-> ""],
     columns_ |-> <<>>,
     macro_definitions |-> definitions, audits |-> audits]

\* SELECT * FROM t WHERE x > @x, and SELECT * FROM t WHERE ds = @end_ds
Audits ==
    <<[name |-> "assert_above",
       query |-> Select(<<>>, <<Leaf("Star", "")>>, <<Table("t")>>, <<>>,
                        <<Where(Binary("GT", Column("x"), MacroVar("x")))>>,
                        <<>>, <<>>, <<>>)],
      [name |-> "assert_day",
       query |-> Select(<<>>, <<Leaf("Star", "")>>, <<Table("t")>>, <<>>,
                        <<Where(Binary("EQ", Column("ds"), MacroVar("end_ds")))>>,
                        <<>>, <<>>, <<>>)]>>

Models ==
    {IncrementalModel(PlainSelect(type), type, format, declared) :
         type \in {"TEXT", "INT", "DATE"}, format \in TimeFormats, declared \in BOOLEAN}
    \cup {IncrementalModel(query, "TEXT", "%Y%m%d", declared) :
              query \in IncrementalQueries("TEXT", "%Y%m%d"), declared \in BOOLEAN}
    \cup {FullModel(SelectFrom(<<Alias(MacroVar("x"), "c")>>), <<>>, <<>>),
          FullModel(SelectFrom(<<Alias(MacroVar("x"), "c")>>),
                    <<MacroDef("x", Number(0))>>, <<>>),
          FullModel(Select(<<>>, <<Column("x")>>, <<Table("t")>>, <<>>,
                           <<Where(Binary("EQ", Column("ds"), MacroVar("start_ds")))>>,
                           <<>>, <<>>, <<>>),
                    <<>>, Audits)}

\* the arguments of a render call: the window and the caller's variables
Calls(op) ==
    {[op |-> op, start |-> start, end |-> end, latest |-> end, kwargs |-> [x |-> Number(x)]] :
         start \in 1..MaxDay, end \in 1..MaxDay, x \in 1..2}

\* the window of a call is in order
InOrder(call) == call.start <= call.end

\* a model whose cache is empty (line 616)
InitRender ==
    /\ model \in Models
    /\ query_cache = <<>>
    /\ renders = 0
    /\ last_call = None
    /\ render_result = <<>>
    /\ DiffUnused /\ DagUnused /\ TxnUnused /\ MacroUnused /\ CronUnused /\ LoadUnused /\ RegistryUnused /\ SelectorUnused

\* the call returns: out is the cache after it and what it returned
Rendering(call, out) ==
    /\ renders < MaxRenders
    /\ InOrder(call)
    /\ query_cache' = out.cache
    /\ render_result' = out.queries
    /\ renders' = renders + 1
    /\ last_call' = call
    /\ UNCHANGED model
    /\ UNCHANGED notRender

\* Model.render_query(start=, end=, latest=, **kwargs)
RenderQueryCall ==
    \E call \in Calls("render_query") :
        Rendering(call, RenderQuery(query_cache, model, call))

\* list(Model.render_audit_queries(start=, end=, latest=, **kwargs))
RenderAuditQueriesCall ==
    /\ model.audits # <<>>
    /\ \E call \in Calls("render_audit_queries") :
           Rendering(call, RenderAudits(query_cache, model, model.audits, call))

NextRender == RenderQueryCall \/ RenderAuditQueriesCall

SpecRender == InitRender /\ [][NextRender]_vars

---------------------------------------------------------------------------
(* Properties of rendering *)

TimeTypes == {"TEXT", "INT", "DATE"}

\* a day of the window in the format and the type of the time column
Bound(type, format, day) ==
    LET text == IF format = "%Y%m%d"
                THEN "2021010" \o ToString(day)
                ELSE "2021-01-0" \o ToString(day)
    IN  CASE type = "TEXT" -> Text(text)
          [] type = "INT" -> NumberText(text)
          [] type = "DATE" -> Cast(Text(text), "DATE")

\* render_query returned the query of an incremental model whose time
\* column has the type and the format
RenderedIncremental(type, format) ==
    /\ renders > 0
    /\ last_call.op = "render_query"
    /\ ~HasError(render_result)
    /\ \E query \in IncrementalQueries(type, format), declared \in BOOLEAN :
           model = IncrementalModel(query, type, format, declared)

\* every SELECT at or below a node
RECURSIVE SelectsIn(_)
SelectsIn(node) ==
    (IF node.type = "Select" THEN {node} ELSE {})
        \cup UNION {UNION {SelectsIn(node.args[k][n]) : n \in DOMAIN node.args[k]}
                    : k \in DOMAIN node.args}

\* the SELECTs that stand below no other SELECT
RECURSIVE OutermostSelects(_)
OutermostSelects(node) ==
    IF node.type = "Select"
    THEN {node}
    ELSE UNION {UNION {OutermostSelects(node.args[k][n]) : n \in DOMAIN node.args[k]}
                : k \in DOMAIN node.args}

\* the SELECTs that stand below another SELECT
RECURSIVE NestedSelects(_)
NestedSelects(node) ==
    UNION {UNION {IF node.type = "Select"
                  THEN SelectsIn(node.args[k][n])
                  ELSE NestedSelects(node.args[k][n])
                  : n \in DOMAIN node.args[k]}
           : k \in DOMAIN node.args}

\* the conditions a WHERE or HAVING clause conjoins
RECURSIVE ConjunctsOf(_)
ConjunctsOf(condition) ==
    IF condition.type = "And"
    THEN ConjunctsOf(condition.args.this[1]) \cup ConjunctsOf(condition.args.expression[1])
    ELSE {condition}

Conjuncts(clause) == IF clause = <<>> THEN {} ELSE ConjunctsOf(clause[1].args.this[1])

\* the select holds a predicate that keeps the time expression e in [low, high]
Restricts(select, e, low, high) ==
    LET held == Conjuncts(select.args.where) \cup Conjuncts(select.args.having)
    IN  \/ Between(e, low, high) \in held
        \/ Binary("LTE", e, high) \in held /\ Binary("GTE", e, low) \in held

KeyOf(select) == IF select.args.group = <<>> THEN "where" ELSE "having"

OtherKeyOf(select) == IF select.args.group = <<>> THEN "having" ELSE "where"

\* C16 as stated: the rendered SELECT holds, in WHERE without GROUP BY and
\* in HAVING with it, the BETWEEN over the time column's projection with
\* the converted bounds, next to the conditions the clause held
C16_BetweenFilter ==
    \A type \in TimeTypes, format \in TimeFormats :
        (RenderedIncremental(type, format) /\ render_result[1].type = "Select")
            => LET held == Conjuncts(render_result[1].args[KeyOf(model.query)])
               IN  /\ Between(Cast(Column("ds"), type),
                              Bound(type, format, last_call.start),
                              Bound(type, format, last_call.end)) \in held
                   /\ Conjuncts(model.query.args[KeyOf(model.query)]) \subseteq held

\* C16: the rendered SELECT holds, in WHERE without GROUP BY and in HAVING
\* with it, the conditions the clause held and the two comparisons
\* e <= high and e >= low over the time column's projection e with the
\* converted bounds, and nothing else; the other clause is as it was
C16_ComparisonFilter ==
    \A type \in TimeTypes, format \in TimeFormats :
        (RenderedIncremental(type, format) /\ render_result[1].type = "Select")
            => /\ Conjuncts(render_result[1].args[KeyOf(model.query)])
                      = Conjuncts(model.query.args[KeyOf(model.query)])
                            \cup {Binary("LTE", Cast(Column("ds"), type),
                                         Bound(type, format, last_call.end)),
                                  Binary("GTE", Cast(Column("ds"), type),
                                         Bound(type, format, last_call.start))}
               /\ render_result[1].args[OtherKeyOf(model.query)]
                      = model.query.args[OtherKeyOf(model.query)]

C16_Witness ==
    /\ RenderedIncremental("TEXT", "%Y%m%d")
    /\ last_call.start = 1 /\ last_call.end = 1
    /\ render_result[1].args.group # <<>>
    /\ render_result[1].args.where = <<Where(OtherCondition)>>
    /\ render_result[1].args.having =
           <<Having(Binary("And",
                           Binary("And",
                                  Binary("LTE", Cast(Column("ds"), "TEXT"), Text("20210101")),
                                  Binary("GTE", Cast(Column("ds"), "TEXT"), Text("20210101"))),
                           OtherCondition))>>

\* C20: a render call returns what it would return on an empty cache
C20_CacheTransparent ==
    renders > 0 => render_result = Render(<<>>, model, last_call).queries

---------------------------------------------------------------------------
(* Cron arithmetic: ModelMeta.interval_unit, normalized_cron, cron_next,   *)
(* cron_prev and cron_floor (sqlmesh/core/model.py, lines 477-557).        *)
(* Times are seconds since the epoch.  A cron expression whose day, month  *)
(* and weekday fields are `*` is the set of its minutes and of its hours.  *)

MaxCronDay == 2      \* the times asked lie in the days 1..MaxCronDay
MaxCronCalls == 2    \* cron_next, cron_prev, cron_floor calls on one model

SampleSize == 10         \* line 477
DaySeconds == 86400      \* line 491
HourSeconds == 3600      \* line 493

MinOf(S) == CHOOSE x \in S : \A y \in S : x <= y

MaxOf(S) == CHOOSE x \in S : \A y \in S : x >= y

CronExpr(minutes, hours) == [minute |-> minutes, hour |-> hours]

\* croniter.get_next: the first time after t at which the expression fires
GetNext(expr, t) ==
    LET day == t \div DaySeconds
        hour == (t % DaySeconds) \div HourSeconds
        later == {m \in expr.minute : m * 60 > t % HourSeconds}
        hours == {h \in expr.hour : h > hour}
    IN  IF hour \in expr.hour /\ later # {}
        THEN day * DaySeconds + hour * HourSeconds + MinOf(later) * 60
        ELSE IF hours # {}
        THEN day * DaySeconds + MinOf(hours) * HourSeconds + MinOf(expr.minute) * 60
        ELSE (day + 1) * DaySeconds + MinOf(expr.hour) * HourSeconds
                 + MinOf(expr.minute) * 60

\* croniter.get_prev: the last time before t at which the expression fires
GetPrev(expr, t) ==
    LET day == t \div DaySeconds
        hour == (t % DaySeconds) \div HourSeconds
        earlier == {m \in expr.minute : m * 60 < t % HourSeconds}
        hours == {h \in expr.hour : h < hour}
    IN  IF hour \in expr.hour /\ earlier # {}
        THEN day * DaySeconds + hour * HourSeconds + MaxOf(earlier) * 60
        ELSE IF hours # {}
        THEN day * DaySeconds + MaxOf(hours) * HourSeconds + MaxOf(expr.minute) * 60
        ELSE (day - 1) * DaySeconds + MaxOf(expr.hour) * HourSeconds
                 + MaxOf(expr.minute) * 60

\* line 489: n successive get_next() of a croniter started at t
RECURSIVE Samples(_, _, _)
Samples(expr, t, n) ==
    IF n = 0
    THEN <<>>
    ELSE <<GetNext(expr, t)>> \o Samples(expr, GetNext(expr, t), n - 1)

\* lines 490-495 on the samples
UnitOf(samples) ==
    LET min_interval == MinOf({samples[k + 1] - samples[k] : k \in 1..(Len(samples) - 1)})
    IN  IF min_interval >= DaySeconds
        THEN "day"
        ELSE IF min_interval >= HourSeconds
        THEN "hour"
        ELSE "minute"

\* interval_unit (lines 477-495); croniter(self.cron) starts at the current time
interval_unit(expr, now) == UnitOf(Samples(expr, now, SampleSize))

\* the declared cron kept as it is
normalized_cron_Declared(expr, now) == expr

\* normalized_cron (lines 497-513)
normalized_cron(expr, now) ==
    CASE interval_unit(expr, now) = "minute" -> CronExpr(0..59, 0..23)
      [] interval_unit(expr, now) = "hour" -> CronExpr({0}, 0..23)
      [] interval_unit(expr, now) = "day" -> CronExpr({0}, {0})

\* lines 516-517: the expression of self._croniter after croniter(value)
Croniter(cache, expr, now) ==
    IF cache = None THEN normalized_cron(expr, now) ELSE cache

\* cron_next (line 531)
cron_next(cached, value) == GetNext(cached, value)

\* cron_prev (line 543)
cron_prev(cached, value) == GetPrev(cached, value)

\* cron_floor (lines 555-557)
cron_floor(cached, value) == GetPrev(cached, cron_next(cached, value))

\* the cron expressions declared: @daily, 1 0 * * *, 0 13 * * *, @hourly,
\* 1 * * * *, 0 0,12 * * *, * * * * *, */5 * * * *
Crons ==
    {CronExpr({0}, {0}), CronExpr({1}, {0}), CronExpr({0}, {13}),
     CronExpr({0}, 0..23), CronExpr({1}, 0..23), CronExpr({0}, {0, 12}),
     CronExpr(0..59, 0..23), CronExpr({5 * k : k \in 0..11}, 0..23)}

\* times of day: on and off the boundaries of a minute, an hour and a day
TimesOfDay ==
    {h * HourSeconds + m * 60 + s : h \in {0, 13, 23}, m \in {0, 1, 59}, s \in {0, 30}}

Timestamps == {d * DaySeconds + t : d \in 1..MaxCronDay, t \in TimesOfDay}

\* the times at which the first call may happen
Clocks == {DaySeconds + t : t \in {30, 23 * HourSeconds + 59 * 60}}

InitCron ==
    /\ cron \in Crons
    /\ clock \in Clocks
    /\ croniter_cache = None
    /\ cron_calls = 0
    /\ cron_call = None
    /\ cron_result = 0
    /\ DiffUnused /\ DagUnused /\ TxnUnused /\ MacroUnused /\ RenderUnused /\ LoadUnused /\ RegistryUnused /\ SelectorUnused

\* a call returns: the croniter is kept on the model (lines 516-517)
CronReturns(op, value, returned) ==
    /\ cron_calls < MaxCronCalls
    /\ croniter_cache' = Croniter(croniter_cache, cron, clock)
    /\ cron_calls' = cron_calls + 1
    /\ cron_call' = [op |-> op, value |-> value]
    /\ cron_result' = returned
    /\ UNCHANGED <<cron, clock>>
    /\ UNCHANGED notCron

\* ModelMeta.cron_next(value)
CronNext ==
    \E value \in Timestamps :
        CronReturns("cron_next", value,
                    cron_next(Croniter(croniter_cache, cron, clock), value))

\* ModelMeta.cron_prev(value)
CronPrev ==
    \E value \in Timestamps :
        CronReturns("cron_prev", value,
                    cron_prev(Croniter(croniter_cache, cron, clock), value))

\* ModelMeta.cron_floor(value)
CronFloor ==
    \E value \in Timestamps :
        CronReturns("cron_floor", value,
                    cron_floor(Croniter(croniter_cache, cron, clock), value))

NextCron == CronNext \/ CronPrev \/ CronFloor

SpecCron == InitCron /\ [][NextCron]_vars

---------------------------------------------------------------------------
(* Properties of the cron arithmetic *)

\* the length of the unit a cron is inferred to have: the smallest gap
\* between its fire times, rounded down to a minute, an hour or a day
UnitSeconds(expr) ==
    LET fires == {h * HourSeconds + m * 60 : h \in expr.hour, m \in expr.minute}
        gap == MinOf({GetNext(expr, f) - f : f \in fires})
    IN  IF gap >= DaySeconds THEN DaySeconds
        ELSE IF gap >= HourSeconds THEN HourSeconds
        ELSE 60

\* C21: cron_next, cron_prev and cron_floor depend only on the unit the
\* declared cron is inferred to have, not on its offset: every result is a
\* multiple of the unit, cron_floor(ts) is the last unit boundary at or
\* before ts, cron_next(ts) the first after ts and cron_prev(ts) the last
\* before ts, as for the aligned schedule of that unit.
C21_CronDependsOnUnitOnly ==
    cron_call # None =>
        LET unit == UnitSeconds(cron)
            ts == cron_call.value
        IN  /\ cron_result % unit = 0
            /\ cron_call.op = "cron_floor" =>
                   /\ cron_result <= ts
                   /\ ts < cron_result + unit
            /\ cron_call.op = "cron_next" =>
                   /\ ts < cron_result
                   /\ cron_result <= ts + unit
            /\ cron_call.op = "cron_prev" =>
                   /\ cron_result < ts
                   /\ ts <= cron_result + unit

\* cron_floor was asked of a model with an offset schedule at a time that
\* is not on a unit boundary
C21_Witness ==
    /\ cron_call # None
    /\ cron_call.op = "cron_floor"
    /\ cron = CronExpr({1}, {0})
    /\ cron_call.value % DaySeconds = 13 * HourSeconds + 60 + 30
    /\ cron_result = cron_call.value - (13 * HourSeconds + 60 + 30)

---------------------------------------------------------------------------
(* Loading a model file: Model.load and Model.validate_definition          *)
(* (sqlmesh/core/model.py, lines 640-712 and 1060-1124)                    *)

\* the MODEL statement with the properties that validation reads; kind and
\* time_column are "" when the property is not given
ModelStatement(kind, time_column, partitioned_by) ==
    [type |-> "Model", kind |-> kind, time_column |-> time_column,
     partitioned_by |-> partitioned_by]

\* str.lower on the names used
Lower(name) ==
    CASE name = "A" -> "a"
      [] name = "B" -> "b"
      [] OTHER -> name

\* ModelMeta.partitioned_by (lines 472-475)
partitioned_by(m) ==
    Uniq((IF m.time_column.column # "" THEN <<m.time_column.column>> ELSE <<>>)
             \o m.partitioned_by_)

\* Query.named_selects
NamedSelects(query) ==
    [k \in DOMAIN query.args.expressions |-> AliasOrName(query.args.expressions[k])]

\* lines 1072-1096 for one projection: it raises
ProjectionRaises(projection) ==
    \/ projection.type = "Star"
    \/ projection.type # "Alias" /\ AliasOrName(projection) = ""
    \/ CastOf(projection) = <<>>

\* validate_definition (lines 1060-1124) on the rendered query: the model,
\* or the Error raised
Validated(m, rendered) ==
    IF IsError(rendered)
    THEN rendered
    ELSE IF \E k \in DOMAIN rendered.args.expressions :
                ProjectionRaises(rendered.args.expressions[k])
    THEN Error("ConfigError")
    ELSE IF \E k, n \in DOMAIN rendered.args.expressions :
                k # n /\ NamedSelects(rendered)[k] = NamedSelects(rendered)[n]
    THEN Error("ConfigError")
    ELSE IF /\ partitioned_by(m) # <<>>
            /\ \/ Len(partitioned_by(m))
                      # Cardinality({Lower(key) : key \in Range(partitioned_by(m))})
               \/ {Lower(key) : key \in Range(partitioned_by(m))}
                      \ {Lower(name) : name \in Range(NamedSelects(rendered))} # {}
    THEN Error("ConfigError")
    ELSE IF m.kind = "incremental" /\ m.time_column.column = ""
    THEN Error("ConfigError")
    ELSE m

validate_definition(m) ==
    Validated(m, InnerRender(<<>>, m, m.query, "",
                             [op |-> "validate", start |-> Epoch, end |-> Epoch,
                              latest |-> Epoch, kwargs |-> <<>>]).query)

\* lines 682-696: the Model built from the statements
NewModel(meta, statements, query) ==
    [kind |-> IF meta.kind = "" THEN "incremental" ELSE meta.kind,
     query |-> query,
     time_column |-> [column |-> meta.time_column, format |-> ""],
     partitioned_by_ |-> meta.partitioned_by,
     columns_ |-> <<>>,
     macro_definitions |-> SelectSeq(statements, LAMBDA s : s.type = "MacroDef"),
     audits |-> <<>>]

\* Model.load (lines 640-712): the Model returned, or the Error raised
load(expressions) ==
    IF Len(expressions) < 2
    THEN Error("ConfigError")
    ELSE IF Head(expressions).type # "Model"
    THEN Error("ConfigError")
    ELSE IF Last(expressions).type \notin Subqueryable
    THEN Error("ConfigError")
    ELSE IF \/ "expressions" \notin DOMAIN Last(expressions).args
            \/ Last(expressions).args.expressions = <<>>
    THEN Error("ConfigError")
    ELSE validate_definition(
             NewModel(Head(expressions),
                      SubSeq(expressions, 2, Len(expressions) - 1),
                      Last(expressions)))

\* a::INT AS a
CastAs(name) == Alias(Cast(Column(name), "INT"), name)

\* the projections of the last statement: a::INT AS a, b::INT AS b; the same
\* without aliases; *; x; SUM(x)::INT; CAST(x + 1 AS INT); y AS y;
\* y::INT, x::INT AS y
ProjectionLists ==
    {<<CastAs("a"), CastAs("b")>>,
     <<Cast(Column("a"), "INT"), Cast(Column("b"), "INT")>>,
     <<Leaf("Star", "")>>,
     <<Column("x")>>,
     <<Cast(Node("Sum", "", 0, [this |-> <<Column("x")>>]), "INT")>>,
     <<Cast(Binary("Add", Column("x"), Number(1)), "INT")>>,
     <<Alias(Column("y"), "y")>>,
     <<Cast(Column("y"), "INT"), Alias(Cast(Column("x"), "INT"), "y")>>}

ModelStatements ==
    {ModelStatement(kind, time_column, keys) :
        kind \in {"", "full"},
        time_column \in {"", "a"},
        keys \in {<<>>, <<"b">>, <<"a", "b">>, <<"b", "b">>, <<"b", "B">>,
                  <<"B">>, <<"b", "c">>}}

Queries ==
    {SelectFrom(projections) : projections \in ProjectionLists}
        \cup {Union(SelectFrom(<<CastAs("a"), CastAs("b")>>),
                    SelectFrom(<<CastAs("a"), CastAs("b")>>))}

\* the statements of a model file: MODEL and query, with @DEF(x, 1) between
\* them and a projection @x::INT AS c or not, and files that lack one of the two or have them in the
\* wrong order or end in a statement that is not a query
ModelFiles ==
    {<<meta, query>> : meta \in ModelStatements, query \in Queries}
        \cup {<<meta, MacroDef("x", Number(1)), query>> :
                  meta \in ModelStatements,
                  query \in {SelectFrom(projections) :
                                 projections \in {<<CastAs("a"), CastAs("b")>>,
                                                  <<CastAs("a"), CastAs("b"),
                                                    Alias(Cast(MacroVar("x"), "INT"), "c")>>}}}
        \cup {<<>>, <<ModelStatement("full", "", <<>>)>>,
              <<SelectFrom(<<CastAs("a"), CastAs("b")>>)>>,
              <<SelectFrom(<<CastAs("a"), CastAs("b")>>), ModelStatement("full", "", <<>>)>>,
              <<ModelStatement("full", "", <<>>), MacroDef("x", Number(1))>>,
              <<ModelStatement("full", "", <<>>), PyNone>>,
              <<ModelStatement("full", "", <<>>), Table("t")>>}

InitLoad ==
    /\ model_file \in ModelFiles
    /\ load_result = None
    /\ DiffUnused /\ DagUnused /\ TxnUnused /\ MacroUnused /\ RenderUnused /\ CronUnused /\ RegistryUnused /\ SelectorUnused

\* Model.load(expressions)
Load ==
    /\ load_result = None
    /\ load_result' = load(model_file)
    /\ UNCHANGED model_file
    /\ UNCHANGED notLoad

NextLoad == Load

SpecLoad == InitLoad /\ [][NextLoad]_vars

---------------------------------------------------------------------------
(* Properties of loading *)

\* the projections of the query a model file ends in
Projections(statements) == Last(statements).args.expressions

\* a model file is malformed: it has fewer than two statements, or does not
\* start with MODEL, or does not end in a query, or a final projection is *,
\* has no name or is not cast, or two have the same name, or a partition key
\* is declared twice or is not a projection, or the model is incremental and
\* has no time column
Malformed(statements) ==
    \/ Len(statements) < 2
    \/ Head(statements).type # "Model"
    \/ Last(statements).type \notin Subqueryable
    \/ /\ Last(statements).type = "Select"
       /\ \/ \E k \in DOMAIN Projections(statements) :
                 \/ Projections(statements)[k].type = "Star"
                 \/ AliasOrName(Projections(statements)[k]) = ""
                 \/ CastOf(Projections(statements)[k]) = <<>>
          \/ \E k, n \in DOMAIN Projections(statements) :
                 /\ k # n
                 /\ AliasOrName(Projections(statements)[k])
                        = AliasOrName(Projections(statements)[n])
          \/ \E k, n \in DOMAIN Head(statements).partitioned_by :
                 /\ k # n
                 /\ Lower(Head(statements).partitioned_by[k])
                        = Lower(Head(statements).partitioned_by[n])
          \/ \E k \in DOMAIN Head(statements).partitioned_by :
                 \A n \in DOMAIN Projections(statements) :
                     Lower(AliasOrName(Projections(statements)[n]))
                         # Lower(Head(statements).partitioned_by[k])
          \/ /\ Head(statements).kind = ""
             /\ Head(statements).time_column = ""

\* C22: Model.load raises ConfigError, and returns no model, for every
\* malformed model file.
C22_MalformedRejected ==
    (load_result # None /\ Malformed(model_file)) => load_result = Error("ConfigError")

---------------------------------------------------------------------------
(* ModelRegistry (sqlmesh/core/model/registry.py).  A dict is the sequence *)
(* of its items in insertion order.                                        *)

MaxRegistryCalls == 4    \* add and merge calls on the two registries

Keys(dict) == {dict[k].key : k \in DOMAIN dict}

\* dict[key] = value
Put(dict, key, value) ==
    IF key \in Keys(dict)
    THEN [k \in DOMAIN dict |->
             IF dict[k].key = key THEN [key |-> key, value |-> value] ELSE dict[k]]
    ELSE Append(dict, [key |-> key, value |-> value])

\* dict.values()
Values(dict) == [k \in DOMAIN dict |-> dict[k].value]

\* ModelRegistry() (lines 19-22)
EmptyRegistry == [name_to_model |-> <<>>, fqn_to_model |-> <<>>]

name_and_fqn_are_different(m) == m.name # m.fqn

\* add without the check of the fqn against the registered names
add_FqnNotCheckedAgainstNames(r, m) ==
    IF m.name \in Keys(r.name_to_model) \/ m.name \in Keys(r.fqn_to_model)
    THEN [registry |-> r, raised |-> TRUE]
    ELSE IF ~name_and_fqn_are_different(m)
    THEN [registry |-> [r EXCEPT !.name_to_model = Put(@, m.name, m)],
          raised |-> FALSE]
    ELSE IF m.fqn \in Keys(r.fqn_to_model)
    THEN [registry |-> [r EXCEPT !.name_to_model = Put(@, m.name, m)],
          raised |-> TRUE]
    ELSE [registry |-> [r EXCEPT !.name_to_model = Put(@, m.name, m),
                                 !.fqn_to_model = Put(@, m.fqn, m)],
          raised |-> FALSE]

\* ModelRegistry.add (lines 50-57): the registry after the call and whether
\* the call raised ValueError
add(r, m) ==
    IF m.name \in Keys(r.name_to_model) \/ m.name \in Keys(r.fqn_to_model)
    THEN [registry |-> r, raised |-> TRUE]
    ELSE IF ~name_and_fqn_are_different(m)
    THEN [registry |-> [r EXCEPT !.name_to_model = Put(@, m.name, m)],
          raised |-> FALSE]
    ELSE IF m.fqn \in Keys(r.fqn_to_model) \/ m.fqn \in Keys(Put(r.name_to_model, m.name, m))
    THEN [registry |-> [r EXCEPT !.name_to_model = Put(@, m.name, m)],
          raised |-> TRUE]
    ELSE [registry |-> [r EXCEPT !.name_to_model = Put(@, m.name, m),
                                 !.fqn_to_model = Put(@, m.fqn, m)],
          raised |-> FALSE]

\* ModelRegistry.models (lines 33-35)
models(r) == Values(r.name_to_model)

\* ModelRegistry.merge (lines 73-75) from the models still to add: the
\* registry after the call, whether it raised, and the models added
RECURSIVE MergeModels(_, _, _)
MergeModels(r, rest, done) ==
    IF rest = <<>>
    THEN [registry |-> r, raised |-> FALSE, added |-> done]
    ELSE IF add(r, Head(rest)).raised
    THEN [registry |-> add(r, Head(rest)).registry, raised |-> TRUE, added |-> done]
    ELSE MergeModels(add(r, Head(rest)).registry, Tail(rest), done \cup {Head(rest)})

merge(r, model_registry) == MergeModels(r, models(model_registry), {})

\* models named t and u, with and without a catalog in the name, and a
\* model named t of another catalog
RegistryModels ==
    {[name |-> "t", fqn |-> "c.t"], [name |-> "c.t", fqn |-> "c.t"],
     [name |-> "u", fqn |-> "c.u"], [name |-> "c.u", fqn |-> "c.u"],
     [name |-> "t", fqn |-> "d.t"]}

InitRegistry ==
    /\ registry = EmptyRegistry
    /\ other_registry = EmptyRegistry
    /\ registry_calls = 0
    /\ registry_call = None
    /\ registry_raised = FALSE
    /\ registry_before = EmptyRegistry
    /\ registered = {}
    /\ DiffUnused /\ DagUnused /\ TxnUnused /\ MacroUnused /\ RenderUnused
    /\ CronUnused /\ LoadUnused /\ SelectorUnused

\* a call on registry returns or raises
RegistryCalled(call, out, returned) ==
    /\ registry_calls < MaxRegistryCalls
    /\ registry_calls' = registry_calls + 1
    /\ registry_call' = call
    /\ registry_before' = registry
    /\ registry' = out.registry
    /\ registry_raised' = out.raised
    /\ registered' = registered \cup returned
    /\ UNCHANGED other_registry
    /\ UNCHANGED notRegistry

\* registry.add(model)
Add ==
    \E m \in RegistryModels :
        RegistryCalled([op |-> "add", model |-> m], add(registry, m),
                       IF add(registry, m).raised THEN {} ELSE {m})

\* other_registry.add(model): the registry that is merged is filled
AddToOther ==
    \E m \in RegistryModels :
        /\ registry_calls < MaxRegistryCalls
        /\ registry_calls' = registry_calls + 1
        /\ other_registry' = add(other_registry, m).registry
        /\ UNCHANGED <<registry, registry_call, registry_raised, registry_before,
                       registered>>
        /\ UNCHANGED notRegistry

\* registry.merge(other_registry)
Merge ==
    RegistryCalled([op |-> "merge", model |-> None],
                   merge(registry, other_registry),
                   merge(registry, other_registry).added)

NextRegistry == Add \/ AddToOther \/ Merge

SpecRegistry == InitRegistry /\ [][NextRegistry]_vars

---------------------------------------------------------------------------
(* Properties of the registry *)

AllKeys(r) == Keys(r.name_to_model) \cup Keys(r.fqn_to_model)

\* C24: a registry never holds a model twice: no key of name_to_model is a
\* key of fqn_to_model, an add of a model whose name or fqn is already a
\* key raises ValueError, and `models` yields every model whose add returned,
\* and no model at two positions.
C24_NoModelTwice ==
    /\ Keys(registry.name_to_model) \cap Keys(registry.fqn_to_model) = {}
    /\ Keys(other_registry.name_to_model) \cap Keys(other_registry.fqn_to_model) = {}
    /\ (registry_call # None /\ registry_call.op = "add"
            /\ {registry_call.model.name, registry_call.model.fqn}
                   \cap AllKeys(registry_before) # {})
           => registry_raised
    /\ registered \subseteq Range(models(registry))
    /\ \A k, n \in DOMAIN models(registry) :
           models(registry)[k] = models(registry)[n] => k = n

\* a model whose name is new and whose fqn is registered as a name was added
\* and the add raised
C24_Witness ==
    /\ registry_call # None
    /\ registry_call.op = "add"
    /\ registry_call.model.name \notin AllKeys(registry_before)
    /\ registry_call.model.fqn \in Keys(registry_before.name_to_model)
    /\ registry_raised
    /\ Len(models(registry)) >= 2

\* C30: a call on the registry that raises ValueError leaves the registry as
\* it was before the call: an add adds no name and no fqn, and a merge adds
\* none of the models of the other registry.
C30_RaisingCallChangesNothing ==
    registry_raised => registry = registry_before

---------------------------------------------------------------------------
(* Selector (sqlmesh/core/selector.py) *)

\* ModelRegistry.all_names (lines 37-39)
all_names(r) == Keys(r.name_to_model) \cup Keys(r.fqn_to_model)

\* dict[key]
Get(dict, key) == dict[CHOOSE k \in DOMAIN dict : dict[k].key = key].value

\* ModelRegistry.get_or_raise (lines 67-71) for a name the registry contains
get_or_raise(r, name) ==
    IF name \in Keys(r.name_to_model)
    THEN Get(r.name_to_model, name)
    ELSE Get(r.fqn_to_model, name)

\* the names a model of the registry depends on, directly or not
RECURSIVE UpstreamOf(_, _, _)
UpstreamOf(r, names, depth) ==
    IF depth = 0
    THEN names
    ELSE UpstreamOf(r,
                    names \cup UNION {m.depends_on : m \in {v \in Range(models(r)) :
                                                               v.name \in names}},
                    depth - 1)

\* DAG.upstream(name) in the DAG of lines 30-32
upstream(r, name) == UpstreamOf(r, {name}, Len(models(r))) \ {name}

\* DAG.downstream(name)
downstream(r, name) == {m.name : m \in {v \in Range(models(r)) : name \in upstream(r, v.name)}}

\* fnmatch.fnmatch(name, pattern) for the patterns used
Fnmatch(name, pattern) ==
    CASE pattern = "*" -> TRUE
      [] pattern = "c.*" -> name \in {"c.a", "c.b", "c.t"}
      [] OTHER -> name = pattern

\* lines 115-131 for one selection: [name, upstream, downstream, glob]
ExpandSelection(r, selection) ==
    IF selection.name = ""
    THEN {}
    ELSE UNION {{name}
                    \cup (IF selection.upstream THEN upstream(r, name) ELSE {})
                    \cup (IF selection.downstream THEN downstream(r, name) ELSE {}) :
                name \in IF selection.glob
                         THEN {n \in all_names(r) : Fnmatch(n, selection.name)}
                         ELSE {selection.name}}

\* expand_model_selections (lines 96-134)
expand_model_selections(r, model_selections) ==
    UNION {ExpandSelection(r, model_selections[k]) : k \in DOMAIN model_selections}

\* lines 76-90: the loop over the names still to visit; registry_so_far is the
\* ModelRegistry filled so far
RECURSIVE SelectLoop(_, _, _, _, _)
SelectLoop(r, env_models, selected, rest, registry_so_far) ==
    IF rest = <<>>
    THEN registry_so_far
    ELSE IF Head(rest) \notin selected /\ Head(rest) \in DOMAIN env_models
    THEN IF add(registry_so_far, env_models[Head(rest)]).raised
         THEN Error("ValueError")
         ELSE SelectLoop(r, env_models, selected, Tail(rest),
                         add(registry_so_far, env_models[Head(rest)]).registry)
    ELSE IF Head(rest) \in selected /\ Head(rest) \in all_names(r)
    THEN IF add(registry_so_far, get_or_raise(r, Head(rest))).raised
         THEN Error("ValueError")
         ELSE SelectLoop(r, env_models, selected, Tail(rest),
                         add(registry_so_far, get_or_raise(r, Head(rest))).registry)
    ELSE SelectLoop(r, env_models, selected, Tail(rest), registry_so_far)

\* lines 53-62: the environment whose models fill in, or None
TargetEnvironment(envs, call) ==
    IF call.target_env_name \in DOMAIN envs
    THEN envs[call.target_env_name]
    ELSE IF call.fallback_env_name # "" /\ call.fallback_env_name \in DOMAIN envs
    THEN envs[call.fallback_env_name]
    ELSE None

\* lines 53-57: the environments asked of the state reader
EnvironmentsRead(envs, call) ==
    IF call.target_env_name \notin DOMAIN envs /\ call.fallback_env_name # ""
    THEN <<call.target_env_name, call.fallback_env_name>>
    ELSE <<call.target_env_name>>

\* select_models (lines 37-94); the names are visited in the order of
\* `visit`, the iteration order of the set all_model_names
select_models(r, envs, call, visit) ==
    IF TargetEnvironment(envs, call) = None
    THEN Error("SQLMeshError")
    ELSE SelectLoop(r,
                    [name \in {m.name : m \in TargetEnvironment(envs, call).snapshots} |->
                        CHOOSE m \in TargetEnvironment(envs, call).snapshots : m.name = name],
                    expand_model_selections(r, call.model_selections),
                    SelectSeq(visit,
                              LAMBDA name :
                                  name \in all_names(r)
                                      \cup {m.name : m \in TargetEnvironment(envs, call).snapshots}),
                    EmptyRegistry)

\* the models c.a, c.b (which reads c.a) and t (whose fqn is c.t), as they
\* are locally or in an environment
ProjectModel(name, version) ==
    [name |-> name,
     fqn |-> IF name = "t" THEN "c.t" ELSE name,
     depends_on |-> IF name = "c.b" THEN {"c.a"} ELSE {},
     version |-> version]

ProjectNames == {"c.a", "c.b", "t"}

VisitOrders == {<<"c.a", "c.b", "c.t", "t">>, <<"t", "c.t", "c.b", "c.a">>}

Selection(name, include_upstream, include_downstream, glob) ==
    [name |-> name, upstream |-> include_upstream, downstream |-> include_downstream,
     glob |-> glob]

\* the selections: nothing, "", c.a, c.b, t, c.t, +c.b, c.a+, c.* and *, and
\* the pair c.a, t
SelectionLists ==
    {<<>>, <<Selection("c.a", FALSE, FALSE, FALSE), Selection("t", FALSE, FALSE, FALSE)>>}
        \cup {<<Selection(name, FALSE, FALSE, FALSE)>> : name \in {"", "c.a", "c.b", "t", "c.t"}}
        \cup {<<Selection("c.b", TRUE, FALSE, FALSE)>>,
              <<Selection("c.a", FALSE, TRUE, FALSE)>>,
              <<Selection("c.*", FALSE, FALSE, TRUE)>>,
              <<Selection("*", FALSE, FALSE, TRUE)>>}

\* ModelRegistry holding the models given
RECURSIVE RegistryOf(_)
RegistryOf(ms) ==
    IF ms = <<>> THEN EmptyRegistry ELSE add(RegistryOf(Tail(ms)), Head(ms)).registry

NamesIn(order, names) == SelectSeq(order, LAMBDA name : name \in names)

InitSelector ==
    /\ \E names \in SUBSET ProjectNames :
           local_registry =
               RegistryOf([k \in DOMAIN NamesIn(<<"c.a", "c.b", "t">>, names) |->
                              ProjectModel(NamesIn(<<"c.a", "c.b", "t">>, names)[k], "local")])
    /\ \E existing \in SUBSET {"dev", "prod"} :
           \E contents \in [existing -> SUBSET ProjectNames] :
               environments =
                   [e \in existing |->
                        [name |-> e,
                         snapshots |-> {ProjectModel(name, e) : name \in contents[e]}]]
    /\ select_call = None
    /\ select_result = None
    /\ DiffUnused /\ DagUnused /\ TxnUnused /\ MacroUnused /\ RenderUnused
    /\ CronUnused /\ LoadUnused /\ RegistryUnused

\* Selector.select_models(model_selections, "dev", fallback_env_name)
SelectModels ==
    /\ select_call = None
    /\ \E model_selections \in SelectionLists, fallback \in {"", "prod"},
          visit \in VisitOrders :
           /\ \A k \in DOMAIN model_selections :
                  (model_selections[k].upstream \/ model_selections[k].downstream)
                      => model_selections[k].name \in Keys(local_registry.name_to_model)
           /\ select_call' = [model_selections |-> model_selections,
                              target_env_name |-> "dev",
                              fallback_env_name |-> fallback]
           /\ select_result' =
                  [registry |-> select_models(local_registry, environments,
                                              select_call', visit),
                   read |-> EnvironmentsRead(environments, select_call')]
    /\ UNCHANGED <<local_registry, environments>>
    /\ UNCHANGED notSelector

NextSelector == SelectModels

SpecSelector == InitSelector /\ [][NextSelector]_vars

---------------------------------------------------------------------------
(* Properties of the selector *)

\* the names select_models was asked to select
SelectedNames == expand_model_selections(local_registry, select_call.model_selections)

\* the environment select_models fills in from
EnvironmentModels == TargetEnvironment(environments, select_call)

\* the model select_models is to return for a name, or None
Expected(name) ==
    IF name \in SelectedNames /\ name \in all_names(local_registry)
    THEN get_or_raise(local_registry, name)
    ELSE IF name \notin SelectedNames /\ name \in {m.name : m \in EnvironmentModels.snapshots}
    THEN CHOOSE m \in EnvironmentModels.snapshots : m.name = name
    ELSE None

\* C25: select_models returns, for every name known locally or in the
\* target environment, the local model when the name is selected and exists
\* locally, the environment's model when the name is not selected and
\* exists in the environment, and no model otherwise (none but a model
\* returned for its other name); the fallback environment is read only when the target environment
\* does not exist, and SQLMeshError is raised when neither exists.
C25_SelectedLocalOthersFromEnvironment ==
    select_call # None =>
        /\ ("prod" \in Range(select_result.read)) => "dev" \notin DOMAIN environments
        /\ IF EnvironmentModels = None
           THEN select_result.registry = Error("SQLMeshError")
           ELSE /\ "name_to_model" \in DOMAIN select_result.registry
                /\ \A name \in all_names(local_registry)
                                   \cup {m.name : m \in EnvironmentModels.snapshots} :
                       IF Expected(name) = None
                       THEN \/ name \notin Keys(select_result.registry.name_to_model)
                            \/ \E alias \in all_names(local_registry) :
                                   Expected(alias) = Get(select_result.registry.name_to_model,
                                                         name)
                       ELSE /\ name \in all_names(select_result.registry)
                            /\ get_or_raise(select_result.registry, name) = Expected(name)

---------------------------------------------------------------------------
(* ContextDiff.create with two parents that carry a remote history *)

MaxCreatedTs == 2       \* the created_ts of a stored snapshot is in 1..MaxCreatedTs

\* A -> B <- C where the local snapshots of A and C are already stored, each
\* created at its own time and carrying its own remote history of B (C may
\* carry none), and each modified or not with respect to the environment
InitRecency ==
    \E order \in Orders({"A", "B", "C"}) :
    \E a_ts \in 1..MaxCreatedTs, c_ts \in 1..MaxCreatedTs :
    \E a_modified \in BOOLEAN, c_modified \in BOOLEAN, c_has \in BOOLEAN :
    \E b_persisted \in BOOLEAN, b_previous \in Histories(1) :
        LET lfp == [n \in {"A", "B", "C"} |->
                       IF n = "B" THEN Fingerprint(1, 2) ELSE Fingerprint(2, 1)]
            local == [n \in {"A", "B", "C"} |->
                         NewSnapshot(n, lfp[n],
                                     IF n = "B"
                                     THEN {[name |-> p, fingerprint |-> lfp[p]] :
                                           p \in {"A", "C"}}
                                     ELSE {})]
            a_stored == [local["A"] EXCEPT
                            !.indirect_versions = ("B" :> <<HistEntry(1)>>),
                            !.created_ts = a_ts]
            c_stored == [local["C"] EXCEPT
                            !.indirect_versions =
                                IF c_has THEN ("B" :> <<HistEntry(2)>>) ELSE <<>>,
                            !.created_ts = c_ts]
            b_remote == [NewSnapshot("B", Fingerprint(1, 1), {}) EXCEPT
                            !.previous_versions = b_previous]
        IN  /\ InitWith(local, order,
                        [n \in {"A", "B", "C"} |->
                            CASE n = "A" -> IF a_modified
                                            THEN NewSnapshot("A", Fingerprint(1, 1), {})
                                            ELSE a_stored
                              [] n = "C" -> IF c_modified
                                            THEN NewSnapshot("C", Fingerprint(1, 1), {})
                                            ELSE c_stored
                              [] OTHER -> b_remote],
                        IF b_persisted
                        THEN [n \in {"A", "B", "C"} |->
                                 CASE n = "A" -> a_stored
                                   [] n = "C" -> c_stored
                                   [] OTHER -> local[n]]
                        ELSE [n \in {"A", "C"} |->
                                 IF n = "A" THEN a_stored ELSE c_stored])
            /\ DagUnused /\ TxnUnused /\ MacroUnused /\ RenderUnused
            /\ CronUnused /\ LoadUnused /\ RegistryUnused /\ SelectorUnused

SpecRecency == InitRecency /\ [][Next]_vars

\* the stored snapshot of the k-th local snapshot, or None
StoredAt(k) ==
    IF SnapshotId(heap[snapshots[k][2]]) \in DOMAIN stored
    THEN heap[stored[SnapshotId(heap[snapshots[k][2]])]]
    ELSE None

\* the positions the loop has passed whose snapshot is stored and modified
\* and carries a remote history of the child
Carriers(child) ==
    {k \in 1..(i - 1) :
        /\ snapshots[k][1] \in DOMAIN modified_info
        /\ StoredAt(k) # None
        /\ child \in DOMAIN StoredAt(k).indirect_versions}

\* the first of the carriers with the greatest created_ts
Latest(child) ==
    CHOOSE k \in Carriers(child) :
        \A other \in Carriers(child) :
            \/ StoredAt(other).created_ts < StoredAt(k).created_ts
            \/ StoredAt(other).created_ts = StoredAt(k).created_ts /\ k <= other

\* C26: the remote history that create records for a child is that of the
\* stored and modified snapshot with the greatest created_ts among those
\* carrying one; it is replaced only by one with a strictly greater
\* created_ts (of two with the same created_ts the first stays), so with
\* distinct timestamps it does not depend on the iteration order.
C26_LatestRemoteHistoryRecorded ==
    pc = "running" =>
        /\ DOMAIN snapshot_remote_versions = {child \in Names : Carriers(child) # {}}
        /\ \A child \in DOMAIN snapshot_remote_versions :
               snapshot_remote_versions[child] =
                   <<StoredAt(Latest(child)).indirect_versions[child],
                     StoredAt(Latest(child)).created_ts>>

\* two carriers were met, the one with the greater created_ts first
C26_Witness ==
    /\ pc = "running"
    /\ i > Len(snapshots)
    /\ \E k, other \in Carriers("B") :
           k < other /\ StoredAt(other).created_ts < StoredAt(k).created_ts

====
